---- MODULE Spec2Model ----
(***************************************************************************)
(* Verification model of the AEA Data Editor helper scripts.               *)
(*                                                                         *)
(* Part 1: jira_purge_query.py -- the purge-eligibility check.  main()     *)
(* walks the issue keys of the command line; for each it calls             *)
(* check_issue_ready_for_purge, a recursive walk along "is revised by"     *)
(* links guarded by the _visited set.  The recursion is modelled by an     *)
(* explicit call stack, one action per stretch of code between two calls.  *)
(* The Jira server is the environment: what it answers for an issue is     *)
(* chosen the first time the issue is fetched, the links of the issue the  *)
(* first time the script reads them, and both stay fixed afterwards.       *)
(***************************************************************************)
EXTENDS Integers, Sequences, FiniteSets, TLC

\* ------------------------------------------------------------------ bounds
MaxIssues == 3
MaxRoots == 2
MaxLinks == 3
MaxFanOut == 2
MaxHistories == 1

Keys == 1..MaxIssues

\* ------------------------------------------------------------------ text
\* Strings the scripts compare character by character, as ASCII codes.
Chars(s) ==
    CASE s = "Done" -> <<68, 111, 110, 101>>
      [] s = "Pending" -> <<80, 101, 110, 100, 105, 110, 103>>
      [] s = "Pending publication" ->
            <<80, 101, 110, 100, 105, 110, 103, 32, 112, 117, 98, 108, 105, 99,
              97, 116, 105, 111, 110>>
      [] s = "Assess openICPSR changes" ->
            <<65, 115, 115, 101, 115, 115, 32, 111, 112, 101, 110, 73, 67, 80,
              83, 82, 32, 99, 104, 97, 110, 103, 101, 115>>
      [] s = "pending openicpsr" ->
            <<112, 101, 110, 100, 105, 110, 103, 32, 111, 112, 101, 110, 105,
              99, 112, 115, 114>>
      [] s = "assess openicpsr" ->
            <<97, 115, 115, 101, 115, 115, 32, 111, 112, 101, 110, 105, 99,
              112, 115, 114>>
      [] s = "pending publication" ->
            <<112, 101, 110, 100, 105, 110, 103, 32, 112, 117, 98, 108, 105,
              99, 97, 116, 105, 111, 110>>
      [] s = "is revised by" ->
            <<105, 115, 32, 114, 101, 118, 105, 115, 101, 100, 32, 98, 121>>
      [] s = "revised by" -> <<114, 101, 118, 105, 115, 101, 100, 32, 98, 121>>
      [] s = "relates to" -> <<114, 101, 108, 97, 116, 101, 115, 32, 116, 111>>
      [] s = "Relates" -> <<82, 101, 108, 97, 116, 101, 115>>
      [] s = "relates" -> <<114, 101, 108, 97, 116, 101, 115>>
      [] s = "Revision" -> <<82, 101, 118, 105, 115, 105, 111, 110>>
      [] s = "p" ->
            <<112>>
      [] s = "pre-approve" ->
            <<112, 114, 101, 45, 97, 112, 112, 114, 111, 118, 101>>
      [] s = "a" ->
            <<97>>
      [] s = "approve" ->
            <<97, 112, 112, 114, 111, 118, 101>>
      [] s = "P" ->
            <<80>>
      [] s = "x" ->
            <<120>>
      [] s = "1" ->
            <<49>>
      [] s = "2" ->
            <<50>>
      [] s = "0" ->
            <<48>>
      [] s = "9" ->
            <<57>>
      [] s = "-1" ->
            <<45, 49>>
      [] s = "Report Under Review" ->
            <<82, 101, 112, 111, 114, 116, 32, 85, 110, 100, 101, 114, 32,
              82, 101, 118, 105, 101, 119>>
      [] s = "Pre-Approved" ->
            <<80, 114, 101, 45, 65, 112, 112, 114, 111, 118, 101, 100>>
      [] s = "pre-approved" ->
            <<112, 114, 101, 45, 97, 112, 112, 114, 111, 118, 101, 100>>
      [] s = "Approved" ->
            <<65, 112, 112, 114, 111, 118, 101, 100>>
      [] s = "In Progress" ->
            <<73, 110, 32, 80, 114, 111, 103, 114, 101, 115, 115>>
      [] s = "Review for pre-approval" ->
            <<82, 101, 118, 105, 101, 119, 32, 102, 111, 114, 32, 112,
              114, 101, 45, 97, 112, 112, 114, 111, 118, 97, 108>>
      [] s = "Approve" ->
            <<65, 112, 112, 114, 111, 118, 101>>
      [] s = "Reject" ->
            <<82, 101, 106, 101, 99, 116>>
      [] s = "RR" ->
            <<82, 82>>
      [] s = "CA" ->
            <<67, 65>>
      [] s = "other" ->
            <<111, 116, 104, 101, 114>>
      [] s = "Accept" ->
            <<65, 99, 99, 101, 112, 116>>
      [] s = "Accept with changes" ->
            <<65, 99, 99, 101, 112, 116, 32, 119, 105, 116, 104, 32, 99,
              104, 97, 110, 103, 101, 115>>
      [] s = "Accept - with Changes" ->
            <<65, 99, 99, 101, 112, 116, 32, 45, 32, 119, 105, 116, 104,
              32, 67, 104, 97, 110, 103, 101, 115>>
      [] s = "Conditional Accept" ->
            <<67, 111, 110, 100, 105, 116, 105, 111, 110, 97, 108, 32, 65,
              99, 99, 101, 112, 116>>
      [] s = "Revise and Resubmit" ->
            <<82, 101, 118, 105, 115, 101, 32, 97, 110, 100, 32, 82, 101,
              115, 117, 98, 109, 105, 116>>
      [] s = "y" ->
            <<121>>
      [] s = "yes" ->
            <<121, 101, 115>>
      [] s = "YES" ->
            <<89, 69, 83>>
      [] s = "n" ->
            <<110>>
      [] s = "The replication package is accepted." ->
            <<84, 104, 101, 32, 114, 101, 112, 108, 105, 99, 97, 116, 105,
              111, 110, 32, 112, 97, 99, 107, 97, 103, 101, 32, 105, 115,
              32, 97, 99, 99, 101, 112, 116, 101, 100, 46>>
      [] s = "Conditional on making the requested changes to the package, the package is accepted." ->
            <<67, 111, 110, 100, 105, 116, 105, 111, 110, 97, 108, 32,
              111, 110, 32, 109, 97, 107, 105, 110, 103, 32, 116, 104,
              101, 32, 114, 101, 113, 117, 101, 115, 116, 101, 100, 32,
              99, 104, 97, 110, 103, 101, 115, 32, 116, 111, 32, 116, 104,
              101, 32, 112, 97, 99, 107, 97, 103, 101, 44, 32, 116, 104,
              101, 32, 112, 97, 99, 107, 97, 103, 101, 32, 105, 115, 32,
              97, 99, 99, 101, 112, 116, 101, 100, 46>>
      [] s = "We look forward to reviewing the final replication package again after conditional acceptance." ->
            <<87, 101, 32, 108, 111, 111, 107, 32, 102, 111, 114, 119, 97,
              114, 100, 32, 116, 111, 32, 114, 101, 118, 105, 101, 119,
              105, 110, 103, 32, 116, 104, 101, 32, 102, 105, 110, 97,
              108, 32, 114, 101, 112, 108, 105, 99, 97, 116, 105, 111,
              110, 32, 112, 97, 99, 107, 97, 103, 101, 32, 97, 103, 97,
              105, 110, 32, 97, 102, 116, 101, 114, 32, 99, 111, 110, 100,
              105, 116, 105, 111, 110, 97, 108, 32, 97, 99, 99, 101, 112,
              116, 97, 110, 99, 101, 46>>
      [] s = "The replication package is accepted" ->
            <<84, 104, 101, 32, 114, 101, 112, 108, 105, 99, 97, 116, 105,
              111, 110, 32, 112, 97, 99, 107, 97, 103, 101, 32, 105, 115,
              32, 97, 99, 99, 101, 112, 116, 101, 100>>
      [] s = "We look forward to reviewing the final replication package after modifications" ->
            <<87, 101, 32, 108, 111, 111, 107, 32, 102, 111, 114, 119, 97,
              114, 100, 32, 116, 111, 32, 114, 101, 118, 105, 101, 119,
              105, 110, 103, 32, 116, 104, 101, 32, 102, 105, 110, 97,
              108, 32, 114, 101, 112, 108, 105, 99, 97, 116, 105, 111,
              110, 32, 112, 97, 99, 107, 97, 103, 101, 32, 97, 102, 116,
              101, 114, 32, 109, 111, 100, 105, 102, 105, 99, 97, 116,
              105, 111, 110, 115>>
      [] s = "Conditional on" ->
            <<67, 111, 110, 100, 105, 116, 105, 111, 110, 97, 108, 32,
              111, 110>>
      [] s = "We look forward to reviewing the final replication package again after conditional acceptance" ->
            <<87, 101, 32, 108, 111, 111, 107, 32, 102, 111, 114, 119, 97,
              114, 100, 32, 116, 111, 32, 114, 101, 118, 105, 101, 119,
              105, 110, 103, 32, 116, 104, 101, 32, 102, 105, 110, 97,
              108, 32, 114, 101, 112, 108, 105, 99, 97, 116, 105, 111,
              110, 32, 112, 97, 99, 107, 97, 103, 101, 32, 97, 103, 97,
              105, 110, 32, 97, 102, 116, 101, 114, 32, 99, 111, 110, 100,
              105, 116, 105, 111, 110, 97, 108, 32, 97, 99, 99, 101, 112,
              116, 97, 110, 99, 101>>
      [] s = "The actions required to bring the package into conformance are simple enough, we do not need to see the package again until Conditional Acceptance" ->
            <<84, 104, 101, 32, 97, 99, 116, 105, 111, 110, 115, 32, 114,
              101, 113, 117, 105, 114, 101, 100, 32, 116, 111, 32, 98,
              114, 105, 110, 103, 32, 116, 104, 101, 32, 112, 97, 99, 107,
              97, 103, 101, 32, 105, 110, 116, 111, 32, 99, 111, 110, 102,
              111, 114, 109, 97, 110, 99, 101, 32, 97, 114, 101, 32, 115,
              105, 109, 112, 108, 101, 32, 101, 110, 111, 117, 103, 104,
              44, 32, 119, 101, 32, 100, 111, 32, 110, 111, 116, 32, 110,
              101, 101, 100, 32, 116, 111, 32, 115, 101, 101, 32, 116,
              104, 101, 32, 112, 97, 99, 107, 97, 103, 101, 32, 97, 103,
              97, 105, 110, 32, 117, 110, 116, 105, 108, 32, 67, 111, 110,
              100, 105, 116, 105, 111, 110, 97, 108, 32, 65, 99, 99, 101,
              112, 116, 97, 110, 99, 101>>
      [] s = "" -> <<>>

\* Faulty variant of Lower: the text is compared as it is.
LowerKeep(t) == t

\* str.lower() on ASCII text: 'A'..'Z' move to 'a'..'z'.
Lower(t) == [i \in DOMAIN t |-> IF t[i] >= 65 /\ t[i] <= 90 THEN t[i] + 32 ELSE t[i]]

\* Python's `p in t` on strings: p occurs in t as a contiguous substring.
Contains(p, t) ==
    \E off \in 0..(Len(t) - Len(p)) : \A i \in 1..Len(p) : t[off + i] = p[i]

\* ------------------------------------------------------------------ Jira data
required_status_patterns == <<"pending openicpsr", "assess openicpsr", "pending publication">>

\* Current statuses the server may report.
StatusNames == {"Done", "Assess openICPSR changes"}

\* One changelog item: the changed field with its old and new display value
\* ("" stands for a missing/None value).
Item(f, a, b) == [field |-> f, fromString |-> a, toString |-> b]

\* Changelogs (histories, each a list of items) the server may report.
Changelogs ==
    { <<>>,
      << <<Item("status", "Pending", "Pending publication")>>,
         <<Item("assignee", "", "Done"), Item("status", "Pending publication", "Done")>> >>,
      << <<Item("assignee", "Pending publication", "Done"), Item("status", "", "Pending")>> >> }

\* Link types of the server: name and inward description.
LinkInward(type) ==
    CASE type = "Revision" -> "is revised by"
      [] type = "Relates" -> "relates to"

\* An issue link as seen from the fetched issue: the other issue is either
\* link.inwardIssue (dir = "inward") or link.outwardIssue (dir = "outward").
Link(type, dir, k) == [type |-> type, dir |-> dir, key |-> k]

LinkShapes == { <<"Revision", "inward">>, <<"Revision", "outward">>, <<"Relates", "outward">> }

Links == { Link(sh[1], sh[2], k) : sh \in LinkShapes, k \in Keys }

LinkLists == UNION { [1..n -> Links] : n \in 0..MaxFanOut }

\* What jira.issue(key, expand='changelog') can do: raise JIRAError (with an
\* HTTP status code), raise another exception, or return the issue (its
\* status and changelog; its links are kept apart, see links_db).
Failure(kind, code) == [kind |-> kind, status_code |-> code, status |-> "", changelog |-> <<>>]

Issue(st, cl) == [kind |-> "ok", status_code |-> 200, status |-> st, changelog |-> cl]

Failures == { Failure("JIRAError", 404), Failure("JIRAError", 401), Failure("Exception", 0) }

Responses == Failures \cup { Issue(st, cl) : st \in StatusNames, cl \in Changelogs }

\* ------------------------------------------------------------------ check_issue_ready_for_purge
\* The items of the changelog with item.field == 'status'.
StatusItems(changelog) ==
    { it \in UNION { { changelog[h][n] : n \in DOMAIN changelog[h] } : h \in DOMAIN changelog } :
        it.field = "status" }

\* historical_statuses: the non-empty fromString and toString of every status
\* item, plus the current status.
historical_statuses(issue) ==
    { it.fromString : it \in { x \in StatusItems(issue.changelog) : x.fromString # "" } }
      \cup { it.toString : it \in { x \in StatusItems(issue.changelog) : x.toString # "" } }
      \cup { issue.status }

\* `pattern in status.lower()` for some pattern of required_status_patterns.
MatchesRequired(status) ==
    \E p \in DOMAIN required_status_patterns :
        Contains(Chars(required_status_patterns[p]), Lower(Chars(status)))

\* Faulty variant of matched_statuses: only the current status is looked at.
matched_current_only(issue) == { st \in {issue.status} : MatchesRequired(st) }

\* matched_statuses (its order is never used, only its members).
matched_statuses(issue) == { st \in historical_statuses(issue) : MatchesRequired(st) }

\* Faulty variant of revised_by_issues: 'relates' links are followed too.
RECURSIVE revised_by_or_relates(_)
revised_by_or_relates(links) ==
    IF links = <<>> THEN <<>>
    ELSE LET link == Head(links) IN
         IF link.dir = "inward" \/ Lower(Chars(link.type)) = Chars("relates")
         THEN <<link.key>> \o revised_by_or_relates(Tail(links))
         ELSE revised_by_or_relates(Tail(links))

\* Faulty variant of revised_by_issues: the test for link.inwardIssue is left
\* out, so the issue this one revises counts as its revision.
RECURSIVE revised_by_any_direction(_)
revised_by_any_direction(links) ==
    IF links = <<>> THEN <<>>
    ELSE LET link == Head(links) IN
         IF Contains(Chars("revised by"), Lower(Chars(LinkInward(link.type))))
         THEN <<link.key>> \o revised_by_any_direction(Tail(links))
         ELSE revised_by_any_direction(Tail(links))

\* get_revised_by_links, first list: link.inwardIssue.key of every link whose
\* type's inward description contains 'revised by', in link order.
RECURSIVE revised_by_issues(_)
revised_by_issues(links) ==
    IF links = <<>> THEN <<>>
    ELSE LET link == Head(links) IN
         IF Contains(Chars("revised by"), Lower(Chars(LinkInward(link.type)))) /\ link.dir = "inward"
         THEN <<link.key>> \o revised_by_issues(Tail(links))
         ELSE revised_by_issues(Tail(links))

\* get_revised_by_links, second list: the other issue of every link of type
\* 'relates' (compared in lower case) that is not an 'is revised by' link.
RECURSIVE wrong_relates_links(_)
wrong_relates_links(links) ==
    IF links = <<>> THEN <<>>
    ELSE LET link == Head(links) IN
         IF ~Contains(Chars("revised by"), Lower(Chars(LinkInward(link.type))))
            /\ Lower(Chars(link.type)) = Chars("relates")
         THEN <<link.key>> \o wrong_relates_links(Tail(links))
         ELSE wrong_relates_links(Tail(links))

\* The returned tuple (ready, status, mc_recommendation, message) without the
\* recommendation, which is only displayed.  message is a list of lines when
\* ready, a text otherwise.
ListMessage(items) == [is_list |-> TRUE, items |-> items, text |-> "", relates |-> <<>>]
TextMessage(text, relates) == [is_list |-> FALSE, items |-> <<>>, text |-> text, relates |-> relates]
Result(ready, status, message) == [ready |-> ready, status |-> status, message |-> message]

\* The lines of a list message: "via linked issue K", or the status line of
\* the issue that passed.
Via(k) == [via |-> k, info |-> ""]
StatusInfo(current_status) == [via |-> 0, info |-> current_status]

\* return of line 192: the key is already in _visited.
LoopResult == Result(FALSE, "LOOP", TextMessage("Already checked (circular reference)", <<>>))

\* Faulty variant of FetchErrorResult: the test for 404 is inverted.
FetchErrorSwapped(r) ==
    IF r.kind = "JIRAError" /\ r.status_code # 404
    THEN Result(FALSE, "NOT_FOUND", TextMessage("Issue does not exist", <<>>))
    ELSE Result(FALSE, "ERROR", TextMessage("Jira error", <<>>))

\* the except clauses, lines 288-294.
FetchErrorResult(r) ==
    IF r.kind = "JIRAError"
    THEN IF r.status_code = 404
         THEN Result(FALSE, "NOT_FOUND", TextMessage("Issue does not exist", <<>>))
         ELSE Result(FALSE, "ERROR", TextMessage("Jira error", <<>>))
    ELSE Result(FALSE, "ERROR", TextMessage("Error retrieving issue", <<>>))

\* return of line 251: the issue itself passed through a required status.
PassedResult(issue) == Result(TRUE, issue.status, ListMessage(<<StatusInfo(issue.status)>>))

\* return of line 286: no 'is revised by' link to follow.
NeverResult(issue, issuelinks) ==
    Result(FALSE, issue.status,
           TextMessage("Never passed through required statuses", wrong_relates_links(issuelinks)))

\* return of line 282: every linked revision was tried and none passed.
NeitherResult(frame) ==
    Result(FALSE, frame.current_status,
           TextMessage("Neither this issue nor linked revisions passed through required statuses",
                       frame.wrong_relates_links))

\* Faulty variant of ViaResult: the result of the linked issue is handed on
\* as it is.
ViaDropped(linked_key, r) == r

\* returns of lines 274/277: the linked issue passed; its lines are kept and
\* "via linked issue <key>" is put in front.  (A ready result always carries a
\* list, so the legacy branch of line 277 is never taken.)
ViaResult(linked_key, r) ==
    Result(TRUE, r.status,
           ListMessage(<<Via(linked_key)>> \o (IF r.message.is_list THEN r.message.items ELSE <<>>)))

\* ------------------------------------------------------------------ state
VARIABLES
    args,          \* parsed command line: issue_keys and quiet (-v only adds prints)
    db,            \* the Jira server: db[k] = <<answer>> once k was fetched, <<>> before
    links_db,      \* links_db[k] = <<issue.fields.issuelinks>> of k once they were read
    pc,            \* where main() is: "connect", "loop", "check", "exited"
    idx,           \* position of the for loop of main in args.issue_keys
    stack,         \* active calls of check_issue_ready_for_purge, outermost first
    visited,       \* the _visited set object of the running top-level call
    ret,           \* <<result>> of the call that just returned, <<>> otherwise
    all_ready,     \* main's all_ready
    ready_issues,  \* main's ready_issues
    results,       \* what main got back for each key so far (the lines it printed)
    exit_code,     \* <<code>> once sys.exit was called
    fetched,       \* history: keys passed to jira.issue in the running top-level call
    returned,      \* history: key and result of every call that returned in it, in order
    approval,      \* jira_approval_manager.py: one run of the script and its Jira issue
    status_mgr,    \* jira_status_manager.py: one run of the script and its Jira issue
    zenodo         \* zenodo_metadata_editor.py: one deposit and the editor working on it

vars == <<args, db, links_db, pc, idx, stack, visited, ret, all_ready, ready_issues, results, exit_code, fetched, returned, approval, status_mgr, zenodo>>

\* The scripts are separate programs: a run of one leaves the others alone.
other_scripts == <<approval, status_mgr, zenodo>>
NotRunning == [pc |-> "not running"]

\* Command lines: nargs='+' gives at least one key (taken as already
\* normalised, lines 367-374); -q or not.
RootLists == UNION { [1..n -> Keys] : n \in 1..MaxRoots }
ArgSets == { [issue_keys |-> ks, quiet |-> q] : ks \in RootLists, q \in BOOLEAN }

\* Number of links read so far on the issues ks of the server.
RECURSIVE TotalLinks(_, _)
TotalLinks(d, ks) ==
    IF ks = {} THEN 0
    ELSE LET k == CHOOSE x \in ks : TRUE IN
         (IF d[k] = <<>> THEN 0 ELSE Len(d[k][1])) + TotalLinks(d, ks \ {k})

\* Number of issues answered so far with a non-empty changelog.
TotalHistories(d) == Cardinality({ k \in Keys : d[k] # <<>> /\ d[k][1].changelog # <<>> })

\* What the server answers for key k: the recorded answer, or a first answer
\* (the model keeps at most MaxLinks links and MaxHistories non-empty
\* changelogs on the whole server).
Answers(k) ==
    IF db[k] # <<>> THEN { db[k][1] }
    ELSE { r \in Responses :
             TotalHistories(db) + (IF r.changelog # <<>> THEN 1 ELSE 0) <= MaxHistories }

\* The links of issue k, fixed like its answer when the script first reads them.
LinkAnswers(k) ==
    IF links_db[k] # <<>> THEN { links_db[k][1] }
    ELSE { ls \in LinkLists : TotalLinks(links_db, Keys) + Len(ls) <= MaxLinks }

\* A call of check_issue_ready_for_purge(jira, k, ...) that has not run yet.
Frame(k) ==
    [issue_key |-> k, phase |-> "enter", current_status |-> "",
     revised_by_issues |-> <<>>, wrong_relates_links |-> <<>>, i |-> 0]

Top == stack[Len(stack)]
Pop == SubSeq(stack, 1, Len(stack) - 1)

Init ==
    /\ args \in ArgSets
    /\ db = [k \in Keys |-> <<>>]
    /\ links_db = [k \in Keys |-> <<>>]
    /\ pc = "connect"
    /\ idx = 1
    /\ stack = <<>>
    /\ visited = {}
    /\ ret = <<>>
    /\ all_ready = TRUE
    /\ ready_issues = <<>>
    /\ results = <<>>
    /\ exit_code = <<>>
    /\ fetched = <<>>
    /\ returned = <<>>
    /\ approval = NotRunning
    /\ status_mgr = NotRunning
    /\ zenodo = NotRunning

\* ------------------------------------------------------------------ main
\* get_jira_client: credentials missing or the connection fails -> sys.exit(1).
ConnectFails ==
    /\ pc = "connect"
    /\ pc' = "exited"
    /\ exit_code' = <<1>>
    /\ UNCHANGED <<args, db, links_db, idx, stack, visited, ret, all_ready, ready_issues, results, fetched, returned, other_scripts>>

\* lines 344-352: connected, field map built.
Connect ==
    /\ pc = "connect"
    /\ pc' = "loop"
    /\ UNCHANGED <<args, db, links_db, idx, stack, visited, ret, all_ready, ready_issues, results, exit_code, fetched, returned, other_scripts>>

\* Faulty variant of RootVisited: one set lives on across the keys of the
\* command line.
RootVisitedShared(old) == old

\* The _visited object a top-level call works on: main passes none, so the
\* call makes a new empty set (lines 188-189).
RootVisited(old) == {}

\* line 376: main calls check_issue_ready_for_purge for the next key.
MainCall ==
    /\ pc = "loop"
    /\ idx <= Len(args.issue_keys)
    /\ pc' = "check"
    /\ stack' = <<Frame(args.issue_keys[idx])>>
    /\ visited' = RootVisited(visited)
    /\ fetched' = <<>>
    /\ returned' = <<>>
    /\ ret' = <<>>
    /\ UNCHANGED <<args, db, links_db, idx, all_ready, ready_issues, results, exit_code, other_scripts>>

\* ------------------------------------------------------------------ the recursive call
\* Faulty variant of VisitedAdd: the key is not recorded.
VisitedCopy(v, k) == v

\* The set the body goes on with after line 194, and the one handed to the
\* recursive call of line 266 (the same object).
VisitedAdd(v, k) == v \cup {k}

\* A call returns: its frame goes, the caller sees the result.
Return(result) ==
    /\ stack' = Pop
    /\ ret' = <<result>>
    /\ returned' = Append(returned, [key |-> Top.issue_key, result |-> result])

\* lines 188-286 up to the first recursive call or return: the visited guard,
\* the fetch, the status check and the link scan.
Enter ==
    /\ pc = "check"
    /\ stack # <<>>
    /\ Top.phase = "enter"
    /\ LET k == Top.issue_key IN
       IF k \in visited
       THEN /\ Return(LoopResult)
            /\ UNCHANGED <<db, links_db, visited, fetched>>
       ELSE /\ visited' = VisitedAdd(visited, k)
            /\ fetched' = Append(fetched, k)
            /\ \E r \in Answers(k) :
                 /\ db' = [db EXCEPT ![k] = <<r>>]
                 /\ IF r.kind # "ok"
                    THEN Return(FetchErrorResult(r)) /\ UNCHANGED links_db
                    ELSE IF matched_statuses(r) # {}
                    THEN Return(PassedResult(r)) /\ UNCHANGED links_db
                    ELSE \E ls \in LinkAnswers(k) :
                           /\ links_db' = [links_db EXCEPT ![k] = <<ls>>]
                           /\ IF revised_by_issues(ls) = <<>>
                              THEN Return(NeverResult(r, ls))
                              ELSE /\ stack' = [stack EXCEPT ![Len(stack)] =
                                        [issue_key |-> k, phase |-> "links",
                                         current_status |-> r.status,
                                         revised_by_issues |-> revised_by_issues(ls),
                                         wrong_relates_links |-> wrong_relates_links(ls),
                                         i |-> 1]]
                                   /\ ret' = <<>>
                                   /\ UNCHANGED returned
    /\ UNCHANGED <<args, pc, idx, all_ready, ready_issues, results, exit_code, other_scripts>>

\* line 266: the for loop calls check_issue_ready_for_purge for the next
\* linked key, with the same _visited.
Recurse ==
    /\ pc = "check"
    /\ stack # <<>>
    /\ Top.phase = "links"
    /\ ret = <<>>
    /\ Top.i <= Len(Top.revised_by_issues)
    /\ stack' = Append(stack, Frame(Top.revised_by_issues[Top.i]))
    /\ UNCHANGED <<args, db, links_db, pc, idx, visited, ret, all_ready, ready_issues, results, exit_code, fetched, returned, other_scripts>>

\* Faulty variant of StopsOn: the loop goes on whatever the linked issue
\* returned.
StopsNever(r) == FALSE

\* What the loop does with the result of a linked issue (lines 270-277):
\* TRUE means return at once, FALSE means go on with the next link.
StopsOn(r) == r.ready

\* lines 270-277: the recursive call came back.
Resume ==
    /\ pc = "check"
    /\ stack # <<>>
    /\ Top.phase = "links"
    /\ ret # <<>>
    /\ IF StopsOn(ret[1])
       THEN Return(ViaResult(Top.revised_by_issues[Top.i], ret[1]))
       ELSE /\ stack' = [stack EXCEPT ![Len(stack)].i = @ + 1]
            /\ ret' = <<>>
            /\ UNCHANGED returned
    /\ UNCHANGED <<args, db, links_db, pc, idx, visited, all_ready, ready_issues, results, exit_code, fetched, other_scripts>>

\* lines 279-282: the loop ran out of links.
LinksExhausted ==
    /\ pc = "check"
    /\ stack # <<>>
    /\ Top.phase = "links"
    /\ ret = <<>>
    /\ Top.i > Len(Top.revised_by_issues)
    /\ Return(NeitherResult(Top))
    /\ UNCHANGED <<args, db, links_db, pc, idx, visited, all_ready, ready_issues, results, exit_code, fetched, other_scripts>>

\* ------------------------------------------------------------------ main, continued
\* ready_issues after one key (lines 378-396): in quiet mode a ready key is
\* appended at line 381 and again at line 396.
ReadyIssues(old, quiet, key, ready) ==
    IF ~ready THEN old
    ELSE IF quiet THEN old \o <<key, key>>
    ELSE Append(old, key)

\* Faulty variant of AllReady: the last key decides.
AllReadyLast(old, ready) == ready

\* all_ready after one key (lines 395-398).
AllReady(old, ready) == old /\ ready

\* lines 376-398: the top-level call returned to main.
MainCollect ==
    /\ pc = "check"
    /\ stack = <<>>
    /\ ret # <<>>
    /\ results' = Append(results, ret[1])
    /\ ready_issues' = ReadyIssues(ready_issues, args.quiet, args.issue_keys[idx], ret[1].ready)
    /\ all_ready' = AllReady(all_ready, ret[1].ready)
    /\ idx' = idx + 1
    /\ ret' = <<>>
    /\ pc' = "loop"
    /\ UNCHANGED <<args, db, links_db, stack, visited, exit_code, fetched, returned, other_scripts>>

\* line 408: sys.exit(0 if all_ready else 1).
ExitCode(ready) == IF ready THEN 0 ELSE 1

\* Faulty variant of MainExit: the run stops at the first key that is not
\* ready, the keys after it are never checked.
MainExitEarly ==
    /\ pc = "loop"
    /\ (idx > Len(args.issue_keys) \/ ~all_ready)
    /\ pc' = "exited"
    /\ exit_code' = <<ExitCode(all_ready)>>
    /\ UNCHANGED <<args, db, links_db, idx, stack, visited, ret, all_ready, ready_issues, results, fetched, returned, other_scripts>>

MainExit ==
    /\ pc = "loop"
    /\ idx > Len(args.issue_keys)
    /\ pc' = "exited"
    /\ exit_code' = <<ExitCode(all_ready)>>
    /\ UNCHANGED <<args, db, links_db, idx, stack, visited, ret, all_ready, ready_issues, results, fetched, returned, other_scripts>>

Next ==
    \/ ConnectFails
    \/ Connect
    \/ MainCall
    \/ Enter
    \/ Recurse
    \/ Resume
    \/ LinksExhausted
    \/ MainCollect
    \/ MainExit

Spec == Init /\ [][Next]_vars

\* One key on the command line.  The script runs on once started: no step
\* waits for anything but the answer of the server.
InitOneKey == Init /\ Len(args.issue_keys) = 1
FairSpec == InitOneKey /\ [][Next]_vars /\ WF_vars(Next)

\* A batch: two keys on the command line, the same key twice or two
\* different keys (which two makes no difference to the script).
InitBatch == Init /\ args.issue_keys \in {<<1, 1>>, <<1, 2>>}
FairBatchSpec == InitBatch /\ [][Next]_vars /\ WF_vars(Next)

\* ================================================================== Part 2
\* jira_approval_manager.py and jira_status_manager.py work on one Jira issue:
\* they read its status and its recommendation field, may update the field
\* and may ask for a workflow transition.  Everything the server answers is
\* chosen when the script asks for it.

\* ------------------------------------------------------------------ more text
\* str.strip() for blanks.
RECURSIVE StripLeft(_)
StripLeft(t) == IF t # <<>> /\ Head(t) = 32 THEN StripLeft(Tail(t)) ELSE t
RECURSIVE StripRight(_)
StripRight(t) == IF t # <<>> /\ t[Len(t)] = 32 THEN StripRight(SubSeq(t, 1, Len(t) - 1)) ELSE t
Strip(t) == StripRight(StripLeft(t))

\* str.startswith.
StartsWith(t, p) == Len(p) <= Len(t) /\ SubSeq(t, 1, Len(p)) = p

\* str.isdigit(): not empty, every character a digit.
IsDigit(t) == t # <<>> /\ \A n \in DOMAIN t : t[n] >= 48 /\ t[n] <= 57

\* str.replace(c, ''): every character c taken out.
RECURSIVE Without(_, _)
Without(t, c) ==
    IF t = <<>> THEN <<>>
    ELSE IF Head(t) = c THEN Without(Tail(t), c)
    ELSE <<Head(t)>> \o Without(Tail(t), c)

\* int(text) for an optional sign and digits: <<n>>, or <<>> for ValueError.
RECURSIVE DigitsValue(_)
DigitsValue(t) == IF t = <<>> THEN 0 ELSE 10 * DigitsValue(SubSeq(t, 1, Len(t) - 1)) + (t[Len(t)] - 48)
ParseInt(t) ==
    IF IsDigit(t) THEN <<DigitsValue(t)>>
    ELSE IF t # <<>> /\ Head(t) = 45 /\ IsDigit(Tail(t)) THEN <<0 - DigitsValue(Tail(t))>>
    ELSE <<>>

\* ------------------------------------------------------------------ Jira fields
\* A value as the client hands it out: None, a plain string, an option object
\* (it has .value), or a list of option objects.
NoneValue == [shape |-> "none", values |-> <<>>]
StrValue(s) == [shape |-> "str", values |-> <<s>>]
OptionValue(s) == [shape |-> "option", values |-> <<s>>]
OptionList(vs) == [shape |-> "list", values |-> vs]

\* Python's truth value of such a value.
Truthy(v) ==
    CASE v.shape = "none" -> FALSE
      [] v.shape = "str" -> v.values[1] # ""
      [] v.shape = "option" -> TRUE
      [] v.shape = "list" -> v.values # <<>>

\* hasattr(v, 'value')
HasValue(v) == v.shape = "option"

FieldNames == {"MCStatus", "MCRecommendation", "MCRecommendationV2"}

\* field_map as build_field_map leaves it: the id of each field name the
\* server listed ("" for a name that is missing); empty when jira.fields()
\* failed.
FullFieldMap ==
    [MCStatus |-> "customfield_mcstatus", MCRecommendation |-> "customfield_mcrec",
     MCRecommendationV2 |-> "customfield_mcrecv2"]
FieldMaps ==
    { FullFieldMap,
      [FullFieldMap EXCEPT !.MCStatus = ""],
      [MCStatus |-> "", MCRecommendation |-> "", MCRecommendationV2 |-> ""] }

\* The issue on the server: its workflow status and its custom fields by id.
WorkflowStatuses == {"Report Under Review", "Pre-Approved", "Approved", "In Progress"}
MCStatusValues ==
    { NoneValue, StrValue("RR"), OptionValue("RR"), OptionValue("CA"),
      OptionList(<<"RR">>), OptionList(<<"CA", "RR">>) }
RecommendationValues == { NoneValue, OptionValue("Accept"), StrValue("Conditional Accept") }
JiraIssue(st, mc, r1, r2) ==
    [status |-> st,
     fields |-> [customfield_mcstatus |-> mc, customfield_mcrec |-> r1, customfield_mcrecv2 |-> r2]]
JiraIssues ==
    { JiraIssue(st, mc, r1, r2) :
        st \in WorkflowStatuses, mc \in MCStatusValues,
        r1 \in RecommendationValues, r2 \in RecommendationValues }
NoIssue == JiraIssue("", NoneValue, NoneValue, NoneValue)

\* get_field_value: None without a field id, else the attribute of that id.
get_field_value(issue, field_map, field_name) ==
    IF field_map[field_name] = "" THEN NoneValue
    ELSE issue.fields[field_map[field_name]]

\* lines 406-409 (approval manager), 274-277 (status manager): MCStatus, or
\* "other" when it is missing or empty.
mc_status_or_other(issue, field_map) ==
    LET mc_status == get_field_value(issue, field_map, "MCStatus") IN
    IF ~Truthy(mc_status) THEN StrValue("other") ELSE mc_status

\* The string taken out of mc_status: .value of an option, .value of the first
\* option of a list, else mc_status as it is.
status_value(mc_status) ==
    IF HasValue(mc_status) THEN StrValue(mc_status.values[1])
    ELSE IF mc_status.shape = "list" /\ Len(mc_status.values) > 0 THEN StrValue(mc_status.values[1])
    ELSE mc_status

\* Faulty variant of get_mc_recommendation_field: the two fields are swapped.
mc_recommendation_field_swapped(issue, field_map, mc_status) ==
    LET field_name == IF status_value(mc_status) = StrValue("RR") THEN "MCRecommendationV2" ELSE "MCRecommendation" IN
    [field_name |-> field_name,
     field_id |-> field_map[field_name],
     field_value |-> get_field_value(issue, field_map, field_name)]

\* get_mc_recommendation_field: (field_name, field_id, field_value).
get_mc_recommendation_field(issue, field_map, mc_status) ==
    LET field_name == IF status_value(mc_status) = StrValue("RR") THEN "MCRecommendation" ELSE "MCRecommendationV2" IN
    [field_name |-> field_name,
     field_id |-> field_map[field_name],
     field_value |-> get_field_value(issue, field_map, field_name)]

\* A workflow transition the server offers: its id and its name.
Transition(id, name) == [id |-> id, name |-> name]
TransitionLists ==
    { <<>>,
      <<Transition("11", "Reject"), Transition("21", "Review for pre-approval")>>,
      <<Transition("31", "Approve"), Transition("11", "Reject")>> }

\* transition_issue, lines 256-260: the first transition whose name is the
\* target when case is ignored, as <<t>>; <<>> when there is none.
RECURSIVE find_transition(_, _)
find_transition(transitions, target_status) ==
    IF transitions = <<>> THEN <<>>
    ELSE IF Lower(Chars(Head(transitions).name)) = Lower(Chars(target_status))
    THEN <<Head(transitions)>>
    ELSE find_transition(Tail(transitions), target_status)

\* What the server makes of a transition that went through.
StatusAfter(status, name) ==
    CASE name = "Review for pre-approval" -> "Pre-Approved"
      [] name = "Approve" -> "Approved"
      [] OTHER -> "In Progress"

\* A request that changes the issue, as sent to the server, and whether the
\* server carried it out.
UpdateRequest(field_id, value, ok) == [op |-> "update", field |-> field_id, value |-> value, ok |-> ok]
TransitionRequest(t, ok) == [op |-> "transition", field |-> t.id, value |-> StrValue(t.name), ok |-> ok]

\* ------------------------------------------------------------------ jira_approval_manager.py
\* REPLICATION.md in the current directory: absent, or its bold texts that
\* come before "### Action Items".
ReplicationFile(exists, bold_texts) == [exists |-> exists, bold_texts |-> bold_texts]
ReplicationFiles ==
    { ReplicationFile(FALSE, <<>>),
      ReplicationFile(TRUE, <<"The replication package is accepted.">>),
      ReplicationFile(TRUE, <<"Conditional on making the requested changes to the package, the package is accepted.">>),
      ReplicationFile(TRUE, <<"We look forward to reviewing the final replication package again after conditional acceptance.">>) }

standard_mappings ==
    << <<"The replication package is accepted", "Accept">>,
       <<"We look forward to reviewing the final replication package after modifications", "Conditional Accept">> >>
conditional_pattern == "Conditional on"
rr_accept_patterns ==
    <<"We look forward to reviewing the final replication package again after conditional acceptance",
      "The actions required to bring the package into conformance are simple enough, we do not need to see the package again until Conditional Acceptance">>

\* lines 93-113 for one bold text: the recommendation it stands for, "" for none.
bold_text_recommendation(mc_status_value, bold_text) ==
    LET bold_text_clean == Strip(Chars(bold_text)) IN
    IF mc_status_value = StrValue("RR")
    THEN IF \E n \in DOMAIN rr_accept_patterns :
                Contains(Lower(Chars(rr_accept_patterns[n])), Lower(bold_text_clean))
         THEN "Accept" ELSE ""
    ELSE IF StartsWith(Lower(bold_text_clean), Lower(Chars(conditional_pattern)))
    THEN "Accept - with Changes"
    ELSE LET hits == { n \in DOMAIN standard_mappings :
                         Contains(Lower(Chars(standard_mappings[n][1])), Lower(bold_text_clean)) } IN
         IF hits = {} THEN ""
         ELSE standard_mappings[CHOOSE n \in hits : \A m \in hits : n <= m][2]

\* parse_replication_md: the recommendation of the first bold text that
\* stands for one; "" (None) without the file or without such a text.
RECURSIVE first_recommendation(_, _)
first_recommendation(mc_status_value, bold_texts) ==
    IF bold_texts = <<>> THEN ""
    ELSE IF bold_text_recommendation(mc_status_value, Head(bold_texts)) # ""
    THEN bold_text_recommendation(mc_status_value, Head(bold_texts))
    ELSE first_recommendation(mc_status_value, Tail(bold_texts))
parse_replication_md(mc_status_value, file) ==
    IF ~file.exists THEN "" ELSE first_recommendation(mc_status_value, file.bold_texts)

\* jira.editmeta(issue): it fails, or gives the allowed values of the field
\* (none when the field is not editable).
AllowedValues == <<"Accept", "Accept - with Changes", "Conditional Accept">>
EditMetas == { [ok |-> FALSE, allowedValues |-> <<>>],
               [ok |-> TRUE, allowedValues |-> <<>>],
               [ok |-> TRUE, allowedValues |-> AllowedValues] }
FallbackOptions ==
    <<"Accept", "Accept with changes", "Conditional Accept", "Revise and Resubmit", "Reject">>

\* get_recommendation_options.
get_recommendation_options(meta, field_id) ==
    IF field_id = "" THEN <<>>
    ELSE IF meta.ok /\ meta.allowedValues # <<>> THEN meta.allowedValues
    ELSE FallbackOptions

\* normalize_recommendation: lower case, blanks and hyphens taken out.
normalize_recommendation(rec) == Without(Without(Lower(Chars(rec)), 32), 45)

\* Command lines: the action, and the optional recommendation choice.
ApprovalActions == {"p", "pre-approve", "a", "approve", "P", "x"}
RecommendationChoices ==
    { NoneValue, StrValue("0"), StrValue("1"), StrValue("2"), StrValue("9"), StrValue("-1"), StrValue("x") }
ApprovalArgs ==
    { [action |-> a, recommendation_choice |-> c] : a \in ApprovalActions, c \in RecommendationChoices }

\* What the user types at the prompt of line 515.
Confirmations == {"y", "YES", "n", ""}

CountdownSeconds == 8

\* The script before it starts.
ApprovalStart(a) ==
    [pc |-> "start", args |-> a, action_lower |-> <<>>, field_map |-> FullFieldMap,
     server |-> NoIssue, issue |-> NoIssue, mc_status |-> NoneValue,
     status |-> "", field_name |-> "", field_id |-> "", field_value |-> NoneValue,
     target_transition |-> "", recommendation_options |-> <<>>,
     detected_recommendation |-> "", new_recommendation |-> "",
     i |-> 0, slept |-> 0, cancelled |-> FALSE, requests |-> <<>>, exit_code |-> <<>>]

\* sys.exit(code), or the end of main (code 0).
ApprovalExit(code) == [approval EXCEPT !.pc = "exited", !.exit_code = <<code>>]

purge_vars == <<args, db, links_db, pc, idx, stack, visited, ret, all_ready, ready_issues, results, exit_code, fetched, returned>>

\* The purge query at rest while another script runs.
PurgeNotRunning ==
    /\ args = [issue_keys |-> <<>>, quiet |-> FALSE]
    /\ db = [k \in Keys |-> <<>>]
    /\ links_db = [k \in Keys |-> <<>>]
    /\ pc = "not running"
    /\ idx = 1
    /\ stack = <<>>
    /\ visited = {}
    /\ ret = <<>>
    /\ all_ready = TRUE
    /\ ready_issues = <<>>
    /\ results = <<>>
    /\ exit_code = <<>>
    /\ fetched = <<>>
    /\ returned = <<>>

ApprovalInit ==
    /\ PurgeNotRunning
    /\ approval \in { ApprovalStart(a) : a \in ApprovalArgs }
    /\ status_mgr = NotRunning
    /\ zenodo = NotRunning

\* lines 389-394: the action keyword is checked before anything else.
am_ValidateAction ==
    /\ approval.pc = "start"
    /\ LET action_lower == Lower(Chars(approval.args.action)) IN
       IF action_lower \notin { Chars("approve"), Chars("a"), Chars("pre-approve"), Chars("p") }
       THEN approval' = ApprovalExit(1)
       ELSE approval' = [approval EXCEPT !.pc = "connect", !.action_lower = action_lower]
    /\ UNCHANGED <<purge_vars, status_mgr, zenodo>>

\* get_jira_client fails: sys.exit(1).
am_ConnectFails ==
    /\ approval.pc = "connect"
    /\ approval' = ApprovalExit(1)
    /\ UNCHANGED <<purge_vars, status_mgr, zenodo>>

\* lines 397-400: connected; build_field_map.
am_Connect ==
    /\ approval.pc = "connect"
    /\ \E fm \in FieldMaps : approval' = [approval EXCEPT !.pc = "fetch", !.field_map = fm]
    /\ UNCHANGED <<purge_vars, status_mgr, zenodo>>

\* get_issue_details fails: sys.exit(1).
am_GetIssueFails ==
    /\ approval.pc = "fetch"
    /\ approval' = ApprovalExit(1)
    /\ UNCHANGED <<purge_vars, status_mgr, zenodo>>

\* Faulty variant of am_StatusAllowed: every status goes through.
am_StatusAllowedAny(status) == TRUE

\* line 415: the status check.
am_StatusAllowed(status) == status \in {"Report Under Review", "Pre-Approved"}

\* Faulty variant of am_ActionMatches: any of the four keywords will do.
am_ActionMatchesAny(status, action_lower) == TRUE

\* lines 421-428: the action has to go with the status.
am_ActionMatches(status, action_lower) ==
    /\ ~(status = "Report Under Review" /\ action_lower \notin { Chars("pre-approve"), Chars("p") })
    /\ ~(Lower(Chars(status)) = Chars("pre-approved") /\ action_lower \notin { Chars("approve"), Chars("a") })

\* lines 431-434.
am_TargetTransition(status) ==
    IF status = "Report Under Review" THEN "Review for pre-approval" ELSE "Approve"

\* lines 403-434: the issue is fetched and reported, status and action are
\* validated, the target transition is set.
am_GetIssue ==
    /\ approval.pc = "fetch"
    /\ \E issue \in JiraIssues :
         LET mc_status == mc_status_or_other(issue, approval.field_map)
             rec == get_mc_recommendation_field(issue, approval.field_map, mc_status)
             status == issue.status
             read == [approval EXCEPT !.server = issue, !.issue = issue, !.mc_status = mc_status,
                                      !.status = status, !.field_name = rec.field_name,
                                      !.field_id = rec.field_id, !.field_value = rec.field_value]
         IN IF ~am_StatusAllowed(status) \/ ~am_ActionMatches(status, approval.action_lower)
            THEN approval' = [read EXCEPT !.pc = "exited", !.exit_code = <<1>>]
            ELSE approval' = [read EXCEPT !.pc = "options", !.target_transition = am_TargetTransition(status)]
    /\ UNCHANGED <<purge_vars, status_mgr, zenodo>>

\* Faulty variant of am_NewRecommendation: choice 0 is read as the first
\* option of the list.
am_NewRecommendationZeroIsFirst(choice, field_value, recommendation_options) ==
    IF 0 <= choice /\ choice <= Len(recommendation_options) /\ recommendation_options # <<>>
    THEN <<recommendation_options[IF choice = 0 THEN 1 ELSE choice]>>
    ELSE <<>>

\* lines 483-501: the recommendation a valid choice stands for, as <<text>>;
\* <<>> where the script exits with an error.
am_NewRecommendation(choice, field_value, recommendation_options) ==
    IF choice = 0
    THEN IF ~Truthy(field_value) THEN <<>> ELSE <<field_value.values[1]>>
    ELSE IF 1 <= choice /\ choice <= Len(recommendation_options)
    THEN <<recommendation_options[choice]>>
    ELSE <<>>

\* Faulty variant of am_Interactive: a missing choice is not noticed.
am_InteractiveNever(recommendation_choice) == FALSE

\* line 450: no third argument on the command line.
am_Interactive(recommendation_choice) == recommendation_choice = NoneValue

\* lines 437-526 up to the prompt: the options and the suggestion are worked
\* out; without a choice they are shown and the script exits; else the choice
\* is parsed and turned into the new recommendation, which is compared with
\* the suggestion.
am_Options ==
    /\ approval.pc = "options"
    /\ \E meta \in EditMetas, file \in ReplicationFiles :
         LET recommendation_options == get_recommendation_options(meta, approval.field_id)
             detected_recommendation == parse_replication_md(status_value(approval.mc_status), file)
             shown == [approval EXCEPT !.recommendation_options = recommendation_options,
                                       !.detected_recommendation = detected_recommendation]
             parsed == IF approval.args.recommendation_choice = NoneValue THEN <<>>
                       ELSE ParseInt(Chars(approval.args.recommendation_choice.values[1]))
             new == IF parsed = <<>> THEN <<>>
                    ELSE am_NewRecommendation(parsed[1], approval.field_value, recommendation_options)
         IN IF am_Interactive(approval.args.recommendation_choice)
            THEN approval' = [shown EXCEPT !.pc = "exited", !.exit_code = <<0>>]
            ELSE IF new = <<>>
            THEN approval' = [shown EXCEPT !.pc = "exited", !.exit_code = <<1>>]
            ELSE IF detected_recommendation # ""
                    /\ normalize_recommendation(new[1]) # normalize_recommendation(detected_recommendation)
            THEN approval' = [shown EXCEPT !.pc = "confirm", !.new_recommendation = new[1]]
            ELSE approval' = [shown EXCEPT !.pc = "update", !.new_recommendation = new[1]]
    /\ UNCHANGED <<purge_vars, status_mgr, zenodo>>

\* lines 515-526: the user is asked to confirm a choice that differs from the
\* suggestion.
am_Confirm ==
    /\ approval.pc = "confirm"
    /\ \E typed \in Confirmations :
         IF Lower(Strip(Chars(typed))) \notin { Chars("y"), Chars("yes") }
         THEN approval' = ApprovalExit(0)
         ELSE approval' = [approval EXCEPT !.pc = "update"]
    /\ UNCHANGED <<purge_vars, status_mgr, zenodo>>

\* line 529, new_recommendation != field_value: a string is only equal to a
\* string.
am_Changed(new_recommendation, field_value) ==
    ~(field_value.shape = "str" /\ field_value.values[1] = new_recommendation)

\* The issue on the server after an update of one field went through.
ServerUpdate(server, field_id, value) == [server EXCEPT !.fields[field_id] = value]

\* lines 529-535, with update_recommendation (lines 275-303): the field is
\* written when the new recommendation is not the current one; the result of
\* the update is not looked at.  Then the countdown is announced.
am_Update ==
    /\ approval.pc = "update"
    /\ LET next == [approval EXCEPT !.pc = "countdown", !.i = CountdownSeconds] IN
       IF ~am_Changed(approval.new_recommendation, approval.field_value) \/ approval.field_id = ""
       THEN approval' = next
       ELSE \E meta \in EditMetas :
              IF ~meta.ok THEN approval' = next
              ELSE \E ok \in BOOLEAN :
                     approval' =
                       [next EXCEPT
                          !.requests = Append(@, UpdateRequest(approval.field_id,
                                                   OptionValue(approval.new_recommendation), ok)),
                          !.server = IF ok THEN ServerUpdate(@, approval.field_id,
                                                   OptionValue(approval.new_recommendation))
                                     ELSE @]
    /\ UNCHANGED <<purge_vars, status_mgr, zenodo>>

\* lines 537-540: one second of the countdown; after the last the script
\* leaves the try block.
am_CountdownTick ==
    /\ approval.pc = "countdown"
    /\ approval.i >= 1
    /\ approval' = [approval EXCEPT !.i = @ - 1, !.slept = @ + 1,
                                    !.pc = IF approval.i = 1 THEN "transition" ELSE "countdown"]
    /\ UNCHANGED <<purge_vars, status_mgr, zenodo>>

\* Faulty variant of am_Cancel: Ctrl+C is noted, the script goes on to the
\* transition.
am_CancelIgnored ==
    /\ approval.pc = "countdown"
    /\ approval.i >= 1
    /\ approval' = [approval EXCEPT !.cancelled = TRUE, !.pc = "transition"]
    /\ UNCHANGED <<purge_vars, status_mgr, zenodo>>

\* lines 541-543: Ctrl+C during the countdown.
am_Cancel ==
    /\ approval.pc = "countdown"
    /\ approval.i >= 1
    /\ approval' = [approval EXCEPT !.cancelled = TRUE, !.pc = "exited", !.exit_code = <<0>>]
    /\ UNCHANGED <<purge_vars, status_mgr, zenodo>>

\* lines 546-547 with transition_issue (lines 250-272): the transitions of the
\* issue are listed, the one named like the target is asked for; a failure is
\* printed.  main ends.
am_Transition ==
    /\ approval.pc = "transition"
    /\ LET done == ApprovalExit(0) IN
       \/ approval' = done
       \/ \E transitions \in TransitionLists :
            LET found == find_transition(transitions, approval.target_transition) IN
            IF found = <<>> THEN approval' = done
            ELSE \E ok \in BOOLEAN :
                   approval' =
                     [done EXCEPT
                        !.requests = Append(@, TransitionRequest(found[1], ok)),
                        !.server = IF ok THEN [@ EXCEPT !.status = StatusAfter(@, found[1].name)] ELSE @]
    /\ UNCHANGED <<purge_vars, status_mgr, zenodo>>

ApprovalNext ==
    \/ am_ValidateAction
    \/ am_ConnectFails
    \/ am_Connect
    \/ am_GetIssueFails
    \/ am_GetIssue
    \/ am_Options
    \/ am_Confirm
    \/ am_Update
    \/ am_CountdownTick
    \/ am_Cancel
    \/ am_Transition

ApprovalSpec == ApprovalInit /\ [][ApprovalNext]_vars

\* ------------------------------------------------------------------ jira_status_manager.py
\* Command lines: the optional action and, only after an action, the optional
\* new recommendation; -v.
StatusActions == { NoneValue, StrValue("p"), StrValue("pre-approve"), StrValue("a"), StrValue("approve"),
                   StrValue("2"), StrValue("x") }
NewRecommendations == { NoneValue, StrValue("Accept"), StrValue("1"), StrValue("9") }
StatusArgs ==
    { [action |-> a, new_recommendation |-> r, verbose |-> v] :
        a \in StatusActions, r \in NewRecommendations, v \in BOOLEAN }
      \ { x \in [action : StatusActions, new_recommendation : NewRecommendations, verbose : BOOLEAN] :
            x.action = NoneValue /\ x.new_recommendation # NoneValue }

\* str(n) for a positive number.
RECURSIVE Str(_)
Str(n) == IF n < 10 THEN <<48 + n>> ELSE Str(n \div 10) \o <<48 + (n % 10)>>

\* `text in transition_map`, the keys being "1", "2", ... (line 284); the
\* position of the transition, 0 when it is no key.
transition_number(text, transitions) ==
    IF \E n \in DOMAIN transitions : Str(n) = Chars(text)
    THEN CHOOSE n \in DOMAIN transitions : Str(n) = Chars(text)
    ELSE 0

\* Faulty variant of should_transition: the keyword is not looked at.
should_transition_any_action(status, field_value, action) ==
    IF ~Truthy(field_value)
    THEN [should_trans |-> FALSE, target_status |-> "", error_msg |-> "MCRecommendation field is empty"]
    ELSE IF status = "Report Under Review"
    THEN [should_trans |-> TRUE, target_status |-> "Review for pre-approval", error_msg |-> ""]
    ELSE IF Lower(Chars(status)) = Chars("pre-approved")
    THEN [should_trans |-> TRUE, target_status |-> "Approve", error_msg |-> ""]
    ELSE [should_trans |-> FALSE, target_status |-> "", error_msg |-> "No automatic transition available"]

\* should_transition: (should_trans, target_status, error_msg).
should_transition(status, field_value, action) ==
    LET action_lower == IF Truthy(action) THEN Lower(Chars(action.values[1])) ELSE <<>> IN
    IF ~Truthy(field_value)
    THEN [should_trans |-> FALSE, target_status |-> "", error_msg |-> "MCRecommendation field is empty"]
    ELSE IF status = "Report Under Review"
    THEN IF action_lower \in { Chars("pre-approve"), Chars("p") }
         THEN [should_trans |-> TRUE, target_status |-> "Review for pre-approval", error_msg |-> ""]
         ELSE [should_trans |-> FALSE, target_status |-> "",
               error_msg |-> "Action 'pre-approve' or 'p' required to transition from 'Report Under Review'"]
    ELSE IF Lower(Chars(status)) = Chars("pre-approved")
    THEN IF action_lower \in { Chars("approve"), Chars("a") }
         THEN [should_trans |-> TRUE, target_status |-> "Approve", error_msg |-> ""]
         ELSE [should_trans |-> FALSE, target_status |-> "",
               error_msg |-> "Action 'approve' or 'a' required to transition from 'Pre-Approved'"]
    ELSE [should_trans |-> FALSE, target_status |-> "", error_msg |-> "No automatic transition available"]

\* The script before it starts.
StatusStart(a) ==
    [pc |-> "connect", args |-> a, field_map |-> FullFieldMap,
     server |-> NoIssue, issue |-> NoIssue, mc_status |-> NoneValue,
     status |-> "", field_name |-> "", field_id |-> "", field_value |-> NoneValue,
     transitions |-> <<>>, target_transition |-> "", recommendation_update |-> NoneValue,
     printed |-> "", requests |-> <<>>, exit_code |-> <<>>]

\* sys.exit(code), an uncaught exception (code 1), or the end of main (code 0).
StatusExit(code) == [status_mgr EXCEPT !.pc = "exited", !.exit_code = <<code>>]

StatusInit ==
    /\ PurgeNotRunning
    /\ approval = NotRunning
    /\ status_mgr \in { StatusStart(a) : a \in StatusArgs }
    /\ zenodo = NotRunning

\* get_jira_client fails: sys.exit(1).
sm_ConnectFails ==
    /\ status_mgr.pc = "connect"
    /\ status_mgr' = StatusExit(1)
    /\ UNCHANGED <<purge_vars, approval, zenodo>>

\* lines 265-268: connected; build_field_map.
sm_Connect ==
    /\ status_mgr.pc = "connect"
    /\ \E fm \in FieldMaps : status_mgr' = [status_mgr EXCEPT !.pc = "fetch", !.field_map = fm]
    /\ UNCHANGED <<purge_vars, approval, zenodo>>

\* get_issue_details fails: sys.exit(1).
sm_GetIssueFails ==
    /\ status_mgr.pc = "fetch"
    /\ status_mgr' = StatusExit(1)
    /\ UNCHANGED <<purge_vars, approval, zenodo>>

\* lines 271-280: the issue is fetched and reported.
sm_GetIssue ==
    /\ status_mgr.pc = "fetch"
    /\ \E issue \in JiraIssues :
         LET mc_status == mc_status_or_other(issue, status_mgr.field_map)
             rec == get_mc_recommendation_field(issue, status_mgr.field_map, mc_status)
         IN status_mgr' = [status_mgr EXCEPT !.pc = "plan", !.server = issue, !.issue = issue,
                                             !.mc_status = mc_status, !.status = issue.status,
                                             !.field_name = rec.field_name, !.field_id = rec.field_id,
                                             !.field_value = rec.field_value]
    /\ UNCHANGED <<purge_vars, approval, zenodo>>

\* line 283: jira.transitions raises; nothing catches it.
sm_TransitionsFail ==
    /\ status_mgr.pc = "plan"
    /\ status_mgr' = StatusExit(1)
    /\ UNCHANGED <<purge_vars, approval, zenodo>>

\* lines 283-311: the transitions are listed; an action that is the number of
\* one goes straight to that transition; a new recommendation that is the
\* number of one names the transition instead of a recommendation.
sm_Plan ==
    /\ status_mgr.pc = "plan"
    /\ \E transitions \in TransitionLists :
         LET action == status_mgr.args.action
             given == status_mgr.args.new_recommendation
             listed == [status_mgr EXCEPT !.transitions = transitions]
             by_action == IF Truthy(action) /\ IsDigit(Chars(action.values[1]))
                          THEN transition_number(action.values[1], transitions) ELSE 0
             by_third == IF Truthy(action) /\ Truthy(given) /\ IsDigit(Chars(given.values[1]))
                         THEN transition_number(given.values[1], transitions) ELSE 0
             recommendation_update == IF by_third # 0 THEN NoneValue ELSE given
             planned == [listed EXCEPT
                           !.target_transition = IF by_third # 0 THEN transitions[by_third].name ELSE "",
                           !.recommendation_update = recommendation_update]
         IN IF by_action # 0
            THEN status_mgr' = [listed EXCEPT !.pc = "numbered",
                                              !.target_transition = transitions[by_action].name]
            ELSE IF Truthy(recommendation_update) /\ ~IsDigit(Chars(recommendation_update.values[1]))
            THEN status_mgr' = [planned EXCEPT !.pc = "update"]
            ELSE status_mgr' = [planned EXCEPT !.pc = "decide"]
    /\ UNCHANGED <<purge_vars, approval, zenodo>>

\* transition_issue (lines 163-185) for a run r of the script: the runs that
\* can come out of it, main having ended.
sm_transition_issue(r, target_status) ==
    LET done == [r EXCEPT !.pc = "exited", !.exit_code = <<0>>] IN
    { done }
      \cup UNION { LET found == find_transition(transitions, target_status) IN
                   IF found = <<>> THEN { done }
                   ELSE { [done EXCEPT
                             !.requests = Append(@, TransitionRequest(found[1], ok)),
                             !.server = IF ok THEN [@ EXCEPT !.status = StatusAfter(@, found[1].name)] ELSE @]
                          : ok \in BOOLEAN }
                 : transitions \in TransitionLists }

\* lines 301-303: the transition picked by its number, then return.
sm_NumberedTransition ==
    /\ status_mgr.pc = "numbered"
    /\ status_mgr' \in sm_transition_issue(status_mgr, status_mgr.target_transition)
    /\ UNCHANGED <<purge_vars, approval, zenodo>>

\* line 313: after update_recommendation, field_value is the value of the
\* command line, whether or not the update went through.
sm_FieldValueAfterUpdate(field_value, recommendation_update) == recommendation_update

\* lines 312-313 with update_recommendation (lines 188-200).
sm_Update ==
    /\ status_mgr.pc = "update"
    /\ LET new_value == status_mgr.recommendation_update
           next == [status_mgr EXCEPT !.pc = "decide",
                                      !.field_value = sm_FieldValueAfterUpdate(@, new_value)]
       IN IF status_mgr.field_id = "" THEN status_mgr' = next
          ELSE \E ok \in BOOLEAN :
                 status_mgr' =
                   [next EXCEPT
                      !.requests = Append(@, UpdateRequest(status_mgr.field_id, new_value, ok)),
                      !.server = IF ok THEN ServerUpdate(@, status_mgr.field_id, new_value) ELSE @]
    /\ UNCHANGED <<purge_vars, approval, zenodo>>

\* lines 316-335: the transition by number of the third argument, the
\* automatic transition, the "Cannot transition" report, or the status line.
sm_Decide ==
    /\ status_mgr.pc = "decide"
    /\ LET st == should_transition(status_mgr.status, status_mgr.field_value, status_mgr.args.action) IN
       IF status_mgr.target_transition # ""
       THEN status_mgr' \in sm_transition_issue(status_mgr, status_mgr.target_transition)
       ELSE IF st.should_trans
       THEN status_mgr' \in sm_transition_issue(status_mgr, st.target_status)
       ELSE IF Truthy(status_mgr.args.action)
       THEN status_mgr' = [status_mgr EXCEPT !.pc = "exited", !.exit_code = <<0>>,
                                             !.printed = "Cannot transition"]
       ELSE status_mgr' = [status_mgr EXCEPT !.pc = "exited", !.exit_code = <<0>>,
                                             !.printed = "Status"]
    /\ UNCHANGED <<purge_vars, approval, zenodo>>

StatusNext ==
    \/ sm_ConnectFails
    \/ sm_Connect
    \/ sm_GetIssueFails
    \/ sm_GetIssue
    \/ sm_TransitionsFail
    \/ sm_Plan
    \/ sm_NumberedTransition
    \/ sm_Update
    \/ sm_Decide

StatusSpec == StatusInit /\ [][StatusNext]_vars

\* One run of the approval manager or one run of the status manager.
ManagersInit == ApprovalInit \/ StatusInit
ManagersNext ==
    \/ am_ValidateAction
    \/ am_ConnectFails
    \/ am_Connect
    \/ am_GetIssueFails
    \/ am_GetIssue
    \/ am_Options
    \/ am_Confirm
    \/ am_Update
    \/ am_CountdownTick
    \/ am_Cancel
    \/ am_Transition
    \/ sm_ConnectFails
    \/ sm_Connect
    \/ sm_GetIssueFails
    \/ sm_GetIssue
    \/ sm_TransitionsFail
    \/ sm_Plan
    \/ sm_NumberedTransition
    \/ sm_Update
    \/ sm_Decide
ManagersSpec == ManagersInit /\ [][ManagersNext]_vars

\* ================================================================== Part 3
\* zenodo_metadata_editor.py: add_relations_to_published_deposit, applied to
\* one deposit again and again with the same DOIs.  Zenodo is the
\* environment: any request may fail, a published deposit has to be put into
\* edit mode before its metadata can be written, and it may be published
\* again between two applications.
MaxRelations == 2
MaxApplications == 2

Dois == {"10.1257/aer.1", "10.3886/E1V1"}
Relations == {"isSupplementTo", "isPartOf", "cites"}

\* One entry of metadata['related_identifiers'] ("" for a missing key).
RelatedId(identifier, relation, resource_type) ==
    [identifier |-> identifier, relation |-> relation, scheme |-> "doi", resource_type |-> resource_type]
RelatedIds == { RelatedId(d, r, "") : d \in Dois, r \in Relations }
RelatedLists == UNION { [1..n -> RelatedIds] : n \in 0..MaxRelations }

\* The metadata of a deposit, as far as the operation looks at it: whether
\* the key 'related_identifiers' is there, and the list under it.
Metadata(has, related_identifiers) == [has_related |-> has, related_identifiers |-> related_identifiers]
Metadatas == { Metadata(FALSE, <<>>) } \cup { Metadata(TRUE, l) : l \in RelatedLists }

\* A deposit on the server: a draft, or published (submitted) and then either
\* closed ("done") or in edit mode ("inprogress").
Deposit(submitted, state, metadata) == [submitted |-> submitted, state |-> state, metadata |-> metadata]
Deposits ==
    { Deposit(FALSE, "unsubmitted", m) : m \in Metadatas }
      \cup { Deposit(TRUE, "done", m) : m \in Metadatas }

\* Faulty variant of has_relation: only the identifier is compared.
has_relation_any(metadata, identifier, relation) ==
    \E n \in DOMAIN metadata.related_identifiers :
        metadata.related_identifiers[n].identifier = identifier

\* has_relation: some entry has this identifier and this relation.
has_relation(metadata, identifier, relation) ==
    \E n \in DOMAIN metadata.related_identifiers :
        /\ metadata.related_identifiers[n].identifier = identifier
        /\ metadata.related_identifiers[n].relation = relation

\* add_related_identifier: the entry is appended (to a new list when the key
\* was missing).
add_related_identifier(metadata, identifier, relation, resource_type) ==
    Metadata(TRUE, Append(metadata.related_identifiers, RelatedId(identifier, relation, resource_type)))

\* lines 302-322: the metadata after the two conditional additions.
with_article(metadata, article_doi) ==
    IF article_doi # "" /\ ~has_relation(metadata, article_doi, "isSupplementTo")
    THEN add_related_identifier(metadata, article_doi, "isSupplementTo", "publication-article")
    ELSE metadata
with_replpkg(metadata, replpkg_doi) ==
    IF replpkg_doi # "" /\ ~has_relation(metadata, replpkg_doi, "isPartOf")
    THEN add_related_identifier(metadata, replpkg_doi, "isPartOf", "dataset")
    ELSE metadata

\* The editor before the first application: the DOIs (""  for None) and the
\* deposit as it is on the server.
ZenodoStart(article_doi, replpkg_doi, d) ==
    [pc |-> "idle", article_doi |-> article_doi, replpkg_doi |-> replpkg_doi,
     server |-> d, initial |-> d, deposit |-> d,
     applications |-> 0, succeeded |-> <<>>, puts |-> 0]

ZenodoInit ==
    /\ PurgeNotRunning
    /\ approval = NotRunning
    /\ status_mgr = NotRunning
    /\ zenodo \in { ZenodoStart(a, r, d) : a \in Dois \cup {""}, r \in Dois \cup {""}, d \in Deposits }

\* The operation raises: this application is over, nothing was written.
ZenodoRaise == [zenodo EXCEPT !.pc = "idle"]

\* lines 281-290: the operation is called; get_deposit.
zen_GetDeposit ==
    /\ zenodo.pc = "idle"
    /\ zenodo.applications < MaxApplications
    /\ LET called == [zenodo EXCEPT !.applications = @ + 1] IN
       \/ zenodo' = called
       \/ zenodo' = [called EXCEPT !.deposit = zenodo.server,
                                   !.pc = IF zenodo.server.submitted THEN "edit" ELSE "update"]
    /\ UNCHANGED <<purge_vars, approval, status_mgr>>

\* lines 291-296: the published deposit is put into edit mode (Zenodo refuses
\* when it is in edit mode already) and fetched again.
zen_Edit ==
    /\ zenodo.pc = "edit"
    /\ \/ zenodo' = ZenodoRaise
       \/ /\ zenodo.server.state = "done"
          /\ LET edited == [zenodo EXCEPT !.server.state = "inprogress"] IN
             \/ zenodo' = [edited EXCEPT !.pc = "idle"]
             \/ zenodo' = [edited EXCEPT !.pc = "update", !.deposit = edited.server]
    /\ UNCHANGED <<purge_vars, approval, status_mgr>>

\* lines 299-336: the relations that are missing are added to a copy of the
\* metadata, which is written back with update_deposit_metadata.
zen_Update ==
    /\ zenodo.pc = "update"
    /\ LET metadata == with_replpkg(with_article(zenodo.deposit.metadata, zenodo.article_doi),
                                    zenodo.replpkg_doi)
       IN IF zenodo.article_doi = "" /\ zenodo.replpkg_doi = ""
          THEN zenodo' = ZenodoRaise
          ELSE \/ zenodo' = [ZenodoRaise EXCEPT !.puts = @ + 1]
               \/ zenodo' = [zenodo EXCEPT !.pc = "idle", !.puts = @ + 1,
                                           !.server.metadata = metadata,
                                           !.succeeded = Append(@, metadata.related_identifiers)]
    /\ UNCHANGED <<purge_vars, approval, status_mgr>>

\* publish_deposit (main, lines 486-493, or the web interface): the deposit
\* is published and closed.
zen_Publish ==
    /\ zenodo.pc = "idle"
    /\ zenodo.server.state # "done"
    /\ zenodo' = [zenodo EXCEPT !.server.state = "done", !.server.submitted = TRUE]
    /\ UNCHANGED <<purge_vars, approval, status_mgr>>

ZenodoNext ==
    \/ zen_GetDeposit
    \/ zen_Edit
    \/ zen_Update
    \/ zen_Publish

ZenodoSpec == ZenodoInit /\ [][ZenodoNext]_vars

\* ================================================================== claims
\* Vocabulary of the claims, stated on the data of the server and on what
\* main got back, independently of the definitions above.
Root(i) == args.issue_keys[i]
FetchedOk(k) == db[k] # <<>> /\ db[k][1].kind = "ok"
FetchFailed(k) == db[k] # <<>> /\ db[k][1].kind # "ok"
CurrentStatus(k) == db[k][1].status

\* Every status the issue ever held: from and to of each status change, and
\* the current status.
EverHeld(k) ==
    LET cl == db[k][1].changelog
        changes == { c \in UNION { { <<h, n>> : n \in DOMAIN cl[h] } : h \in DOMAIN cl } :
                       cl[c[1]][c[2]].field = "status" }
    IN ({ cl[c[1]][c[2]].fromString : c \in changes } \cup { cl[c[1]][c[2]].toString : c \in changes }
          \cup { db[k][1].status }) \ {""}

\* The status names of the model that contain "pending openicpsr", "assess
\* openicpsr" or "pending publication" when case is ignored.
RequiredNames == {"Pending publication", "Assess openICPSR changes"}
HeldRequired(k) == EverHeld(k) \cap RequiredNames # {}

LinksRead(k) == links_db[k] # <<>>
IsRevisedBy(link) == link.type = "Revision" /\ link.dir = "inward"
IsRelates(link) == link.type = "Relates"
\* A is revised by B: B is a REVISED_BY successor of A.
RevisedBySuccessors(k) ==
    IF LinksRead(k) THEN { l.key : l \in { links_db[k][1][n] : n \in DOMAIN links_db[k][1] } \cap { l \in Links : IsRevisedBy(l) } }
    ELSE {}
RelatesTargets(k) ==
    IF LinksRead(k) THEN { l.key : l \in { links_db[k][1][n] : n \in DOMAIN links_db[k][1] } \cap { l \in Links : IsRelates(l) } }
    ELSE {}
FirstRevisedBy(k, b) ==
    /\ LinksRead(k)
    /\ \E n \in DOMAIN links_db[k][1] :
         /\ IsRevisedBy(links_db[k][1][n]) /\ links_db[k][1][n].key = b
         /\ \A m \in 1..(n - 1) : ~IsRevisedBy(links_db[k][1][m])

Range(seq) == { seq[n] : n \in DOMAIN seq }

\* The chain a ready result documents: the root, then the key of every
\* "via linked issue" line of its message.
ViaChain(root, result) ==
    <<root>> \o [n \in 1..(Len(result.message.items) - 1) |-> result.message.items[n].via]

C3_NeverRequiredStatus ==
    \A i \in DOMAIN results :
        (FetchedOk(Root(i)) /\ ~HeldRequired(Root(i)) /\ RevisedBySuccessors(Root(i)) = {})
            => /\ ~results[i].ready
               /\ results[i].status = CurrentStatus(Root(i))
               /\ ~results[i].message.is_list
               /\ results[i].message.text = "Never passed through required statuses"

C3_Witness ==
    \E i \in DOMAIN results :
        /\ FetchedOk(Root(i)) /\ ~HeldRequired(Root(i)) /\ RevisedBySuccessors(Root(i)) = {}
        /\ LinksRead(Root(i)) /\ Len(links_db[Root(i)][1]) = 2
        /\ EverHeld(Root(i)) = {"Done", "Pending"}
        /\ ~results[i].ready

C4_RelatesNeverFollowed ==
    /\ \A n \in DOMAIN fetched :
          \/ n = 1 /\ fetched[n] = (IF pc = "check" THEN Root(idx) ELSE Root(idx - 1))
          \/ \E m \in 1..(n - 1) : fetched[n] \in RevisedBySuccessors(fetched[m])
    /\ \A i \in DOMAIN results :
          /\ results[i].ready =>
                LET chain == ViaChain(Root(i), results[i]) IN
                /\ results[i].message.relates = <<>>
                /\ \A n \in 1..(Len(chain) - 1) : chain[n + 1] \in RevisedBySuccessors(chain[n])
          /\ Range(results[i].message.relates) \subseteq RelatesTargets(Root(i))

\* The second key B of the command line is related to by the first key A
\* and eligible itself; A was resolved without fetching B and is not ready.
C4_Witness ==
    /\ Len(results) = 2
    /\ Root(1) # Root(2)
    /\ Root(2) \in RelatesTargets(Root(1))
    /\ ~results[1].ready
    /\ Root(2) \in Range(results[1].message.relates)
    /\ results[2].ready /\ HeldRequired(Root(2))
    /\ db[Root(2)] # <<>>

\* The issues of the link graph known so far: the keys of the command line
\* and every issue a link that was read points to.
IssuesInGraph ==
    Range(args.issue_keys)
      \cup UNION { { links_db[k][1][n].key : n \in DOMAIN links_db[k][1] } : k \in { x \in Keys : LinksRead(x) } }

\* C5 as stated, its bound: the number of active calls never exceeds the
\* number of distinct issues.
C5_DepthWithinIssues == Len(stack) <= Cardinality(IssuesInGraph)

\* C5 (as amended): every resolution terminates (the script reaches its exit),
\* cycles and self-links included, and the number of active calls never
\* exceeds the number of issues visited plus one, hence never the number of
\* distinct issues plus one: the call that runs into the visited guard is
\* itself a nested call.
C5_TerminatesDepthPlusOne ==
    /\ <>(pc = "exited")
    /\ [](/\ Len(stack) <= Cardinality(visited) + 1
          /\ visited \subseteq IssuesInGraph
          /\ Len(stack) <= Cardinality(IssuesInGraph) + 1)

\* A cycle through another issue led back to the root, which answered with
\* the LOOP result, and the script went on to its exit.
C5_Witness ==
    /\ pc = "exited"
    /\ Len(fetched) >= 2
    /\ \E n \in DOMAIN returned :
         /\ returned[n].key = Root(1)
         /\ returned[n].result = LoopResult
         /\ n > 1 /\ returned[n - 1].key # Root(1)

\* C6 as stated: once the fetch of a followed REVISED_BY successor failed
\* during a resolution, the result for the root is that failure (NOT_FOUND
\* or ERROR).
C6_SuccessorFailurePropagates ==
    (pc # "check" /\ results # <<>>)
        => ((\E n \in 2..Len(fetched) : FetchFailed(fetched[n]))
                => results[Len(results)].status \in {"NOT_FOUND", "ERROR"})

\* C7: within one top-level call no key is passed to jira.issue twice, and
\* the visited set is exactly the set of keys fetched so far in that call.
C7_FetchedAtMostOnce ==
    /\ \A m, n \in DOMAIN fetched : m # n => fetched[m] # fetched[n]
    /\ visited = Range(fetched)

\* An issue reached through two different predecessors (fan-in): fetched
\* once, answered with the LOOP result the second time.
C7_Witness ==
    \E n \in DOMAIN returned :
        LET k == returned[n].key IN
        /\ returned[n].result = LoopResult
        /\ k # fetched[1]
        /\ \E a, b \in Range(fetched) \ {k} :
             a # b /\ k \in RevisedBySuccessors(a) /\ k \in RevisedBySuccessors(b)

\* C8: the exit code is 0 exactly when every key of the command line was
\* resolved and came back ready; otherwise it is 1.  -q makes no difference.
C8_ExitZeroIffAllEligible ==
    pc = "exited"
        => /\ exit_code \in {<<0>>, <<1>>}
           /\ exit_code = <<0>>
                <=> /\ Len(results) = Len(args.issue_keys)
                    /\ \A i \in DOMAIN results : results[i].ready

C8_Witness ==
    /\ pc = "exited"
    /\ args.quiet
    /\ Len(results) = 2
    /\ ~results[1].ready /\ results[2].ready
    /\ exit_code = <<1>>

\* C9: every key of the command line is resolved with a visited set of its
\* own: the set never holds a key that was not fetched for the running
\* root, a LOOP answer is only given for a key fetched for the running root,
\* the same key gets the same result wherever it stands on the command
\* line, and a root whose first REVISED_BY successor held a required status
\* is ready, whether or not an earlier root went through that successor.
C9_OwnVisitedPerRoot ==
    /\ visited \subseteq Range(fetched)
    /\ \A n \in DOMAIN returned :
          returned[n].result = LoopResult => returned[n].key \in Range(fetched)
    /\ \A i, j \in DOMAIN results : Root(i) = Root(j) => results[i] = results[j]
    /\ \A i \in DOMAIN results : \A c \in Keys :
          (FirstRevisedBy(Root(i), c) /\ FetchedOk(c) /\ HeldRequired(c))
              => results[i].ready /\ ViaChain(Root(i), results[i]) = <<Root(i), c>>

\* Two different roots share their first REVISED_BY successor; both are ready.
C9_Witness ==
    /\ Len(results) = 2
    /\ Root(1) # Root(2)
    /\ \E c \in Keys \ {Root(1), Root(2)} :
         /\ FirstRevisedBy(Root(1), c) /\ FirstRevisedBy(Root(2), c)
         /\ HeldRequired(c)
         /\ ViaChain(Root(1), results[1]) = <<Root(1), c>>
         /\ ViaChain(Root(2), results[2]) = <<Root(2), c>>
    /\ results[1].ready /\ results[2].ready

\* C10: when jira.issue fails for the root, the result is not ready and is
\* neither of the two "never passed" results: its status is NOT_FOUND for a
\* JIRAError with status code 404 and ERROR for every other failure.
C10_RootFetchFailure ==
    \A i \in DOMAIN results :
        FetchFailed(Root(i))
            => /\ ~results[i].ready
               /\ ~results[i].message.is_list
               /\ results[i].status =
                    (IF db[Root(i)][1].kind = "JIRAError" /\ db[Root(i)][1].status_code = 404
                     THEN "NOT_FOUND" ELSE "ERROR")
               /\ results[i].message.text \notin
                    { "Never passed through required statuses",
                      "Neither this issue nor linked revisions passed through required statuses" }

C10_Witness ==
    /\ Len(results) = 2
    /\ FetchFailed(Root(1)) /\ db[Root(1)][1].status_code = 404 /\ results[1].status = "NOT_FOUND"
    /\ FetchFailed(Root(2)) /\ db[Root(2)][1].kind = "Exception" /\ results[2].status = "ERROR"

\* C11: once connected, the script resolves every key of the command line,
\* whatever the results of the keys before it (NOT_FOUND, ERROR or not
\* ready): it reaches its exit with one result per key, and the results come
\* in the order of the command line, the n-th being the result of the
\* top-level call for the n-th key.
C11_BatchNeverAborts ==
    /\ (pc = "loop") ~> (pc = "exited" /\ Len(results) = Len(args.issue_keys))
    /\ [][results' # results =>
            /\ results' = Append(results, returned[Len(returned)].result)
            /\ Len(results') = idx
            /\ returned[Len(returned)].key = Root(idx)]_vars
    /\ [](Len(results) <= Len(args.issue_keys))

\* The first of two different keys was not found, the second was resolved
\* all the same and is ready.
C11_Witness ==
    /\ pc = "exited"
    /\ Root(1) # Root(2)
    /\ Len(results) = 2
    /\ FetchFailed(Root(1)) /\ results[1].status = "NOT_FOUND"
    /\ results[2].ready

\* ------------------------------------------------------------------ approval manager
\* Vocabulary: the issue as it was on the server when the script fetched it,
\* the keywords as typed, and the requests the script sent.
AmFetched == approval.issue # NoIssue
AmStatus == approval.issue.status
PreApproveTyped == approval.args.action \in {"p", "pre-approve", "P"}
ApproveTyped == approval.args.action \in {"a", "approve"}
AmUpdates == { n \in DOMAIN approval.requests : approval.requests[n].op = "update" }
AmTransitions == { n \in DOMAIN approval.requests : approval.requests[n].op = "transition" }
AmUntouched == approval.requests = <<>> /\ approval.server = approval.issue
AmExitedWith(code) == approval.pc = "exited" /\ approval.exit_code = <<code>>

\* C12: an issue whose status is neither "Report Under Review" nor
\* "Pre-Approved" makes the approval manager exit with code 1 as soon as it
\* was fetched: no update and no transition is requested and the issue on the
\* server stays as it was; hence every request the script sends is for an
\* issue fetched in one of the two statuses.
C12_OnlyReviewOrPreApproved ==
    /\ (AmFetched /\ AmStatus \notin {"Report Under Review", "Pre-Approved"})
          => AmExitedWith(1) /\ AmUntouched
    /\ approval.requests # <<>> => AmStatus \in {"Report Under Review", "Pre-Approved"}

\* An "Approved" issue with a recommendation, asked to be approved keeping
\* the recommendation.
C12_Witness ==
    /\ AmFetched /\ AmStatus = "Approved"
    /\ approval.args.action = "a" /\ approval.args.recommendation_choice = StrValue("0")
    /\ Truthy(approval.field_value)
    /\ AmExitedWith(1) /\ AmUntouched

\* C13: the transition asked for is fixed by status and keyword (keywords are
\* read ignoring case): at most one transition is requested in a run; from
\* "Report Under Review" it is "Review for pre-approval" and the keyword was
\* pre-approve/p, from "Pre-Approved" it is "Approve" and the keyword was
\* approve/a.  A keyword that does not go with the status ends the run with
\* code 1 and nothing requested; a word that is none of the four keywords
\* ends it with code 1 before the issue is even fetched.
C13_TransitionByStatusAndAction ==
    /\ Cardinality(AmTransitions) <= 1
    /\ \A n \in AmTransitions :
          \/ /\ AmStatus = "Report Under Review" /\ PreApproveTyped
             /\ approval.requests[n].value \in { StrValue("Review for pre-approval") }
          \/ /\ AmStatus = "Pre-Approved" /\ ApproveTyped
             /\ approval.requests[n].value \in { StrValue("Approve") }
    /\ (AmFetched /\ AmStatus = "Report Under Review" /\ ~PreApproveTyped)
          => AmExitedWith(1) /\ AmUntouched
    /\ (AmFetched /\ AmStatus = "Pre-Approved" /\ ~ApproveTyped)
          => AmExitedWith(1) /\ AmUntouched
    /\ (~PreApproveTyped /\ ~ApproveTyped)
          => /\ ~AmFetched /\ AmUntouched
             /\ approval.pc \in {"start", "exited"}
             /\ approval.pc = "exited" => approval.exit_code = <<1>>

\* A "Report Under Review" issue pre-approved with the keyword typed as "P":
\* the pre-approval transition went through.
C13_Witness ==
    /\ AmStatus = "Report Under Review" /\ approval.args.action = "P"
    /\ \E n \in AmTransitions :
         approval.requests[n].value = StrValue("Review for pre-approval") /\ approval.requests[n].ok
    /\ approval.server.status = "Pre-Approved"

\* C14: without the third argument the approval manager requests nothing,
\* whatever the status and the action are: no update, no transition, the
\* issue on the server stays as it was; the script never gets to the prompt,
\* the update or the countdown.  When status and action are accepted it shows
\* the options and exits with code 0.
C14_NoChoiceNoChange ==
    approval.args.recommendation_choice = NoneValue
        => /\ AmUntouched
           /\ approval.pc \in {"start", "connect", "fetch", "options", "exited"}
           /\ (approval.pc = "exited" /\ approval.target_transition # "")
                 => approval.exit_code = <<0>>

\* Options shown for a "Pre-Approved" issue with a suggestion from
\* REPLICATION.md, then exit 0.
C14_Witness ==
    /\ approval.args.recommendation_choice = NoneValue
    /\ AmStatus = "Pre-Approved" /\ approval.args.action = "approve"
    /\ approval.recommendation_options = AllowedValues
    /\ approval.detected_recommendation = "Accept - with Changes"
    /\ AmExitedWith(0) /\ AmUntouched

\* C15: a transition is only requested after all 8 seconds of the countdown
\* went by without Ctrl+C; once Ctrl+C was pressed during the countdown the
\* script has exited and no request follows, at whatever second it came.
C15_TransitionAfterCountdown ==
    /\ AmTransitions # {} => approval.slept = 8 /\ ~approval.cancelled
    /\ approval.cancelled
          => /\ AmTransitions = {}
             /\ AmExitedWith(0)
             /\ approval.slept < 8
    /\ approval.pc = "transition" => approval.slept = 8

\* Ctrl+C in the sixth second, after the recommendation had been updated.
C15_Witness ==
    /\ approval.cancelled /\ approval.slept = 5
    /\ AmUpdates # {} /\ AmTransitions = {}
    /\ approval.pc = "exited"

\* ------------------------------------------------------------------ both managers
\* Vocabulary for a run r of either manager.  The MCStatus value of an issue
\* is the string itself, the value of the option, or the value of the first
\* option of a list; the script knows it only when the server listed the
\* MCStatus field.
RunFetched(r) == r.pc # "not running" /\ r.issue # NoIssue
McStatusIsRR(r) ==
    /\ r.field_map.MCStatus # ""
    /\ r.issue.fields.customfield_mcstatus \in { StrValue("RR"), OptionValue("RR"), OptionList(<<"RR">>) }
ExpectedFieldName(r) == IF McStatusIsRR(r) THEN "MCRecommendation" ELSE "MCRecommendationV2"
ExpectedFieldId(r) == IF McStatusIsRR(r) THEN "customfield_mcrec" ELSE "customfield_mcrecv2"
RunUpdates(r) == { n \in DOMAIN r.requests : r.requests[n].op = "update" }
RunTransitions(r) == { n \in DOMAIN r.requests : r.requests[n].op = "transition" }
FieldRule(r) ==
    RunFetched(r)
        => /\ r.field_name = ExpectedFieldName(r)
           /\ r.field_id \in { "", ExpectedFieldId(r) }
           /\ \A n \in RunUpdates(r) :
                 r.requests[n].field = ExpectedFieldId(r) /\ r.field_id = ExpectedFieldId(r)

\* C16: in both managers the recommendation field is MCRecommendation exactly
\* when the MCStatus value of the issue is "RR" and MCRecommendationV2 in
\* every other case, a missing or unknown MCStatus included: that field is
\* the one reported, its value is the one read, and every update request is
\* for it.
C16_FieldByMCStatus ==
    /\ FieldRule(approval)
    /\ FieldRule(status_mgr)
    /\ (RunFetched(approval) /\ approval.field_id # "")
          => approval.field_value = approval.issue.fields[ExpectedFieldId(approval)]
    /\ (RunFetched(status_mgr) /\ status_mgr.field_id # "")
          => status_mgr.field_value \in
                { status_mgr.issue.fields[ExpectedFieldId(status_mgr)], status_mgr.recommendation_update }
    /\ (RunFetched(status_mgr) /\ status_mgr.field_id # "" /\ status_mgr.pc = "plan")
          => status_mgr.field_value = status_mgr.issue.fields[ExpectedFieldId(status_mgr)]

\* The approval manager updated MCRecommendation of an issue whose MCStatus
\* is the option "RR", leaving MCRecommendationV2 alone.
C16_Witness ==
    /\ RunFetched(approval)
    /\ approval.issue.fields.customfield_mcstatus = OptionValue("RR")
    /\ approval.issue.fields.customfield_mcrec = NoneValue
    /\ approval.issue.fields.customfield_mcrecv2 # NoneValue
    /\ \E n \in RunUpdates(approval) :
         approval.requests[n].field = "customfield_mcrec" /\ approval.requests[n].ok
    /\ approval.server.fields.customfield_mcrec = OptionValue("Accept")
    /\ approval.server.fields.customfield_mcrecv2 = approval.issue.fields.customfield_mcrecv2

\* ------------------------------------------------------------------ status manager
SmStatus == status_mgr.issue.status
SmKeywordTyped == status_mgr.args.action \in { StrValue("p"), StrValue("pre-approve"), StrValue("a"), StrValue("approve") }
SmKeywordMatches ==
    \/ SmStatus = "Report Under Review" /\ status_mgr.args.action \in { StrValue("p"), StrValue("pre-approve") }
    \/ SmStatus = "Pre-Approved" /\ status_mgr.args.action \in { StrValue("a"), StrValue("approve") }
\* The recommendation field of the issue as it is on the server now.
SmFilledOnServer == status_mgr.server.fields[ExpectedFieldId(status_mgr)] # NoneValue
SmRanToEnd == status_mgr.pc = "exited" /\ status_mgr.exit_code = <<0>>

\* C17: run with the issue key alone (with or without -v) the status manager
\* requests nothing: no update, no transition, the issue on the server stays
\* as it was, and a run that gets to its end prints the status line.
C17_KeyOnlyIsQuery ==
    (status_mgr.args.action = NoneValue /\ status_mgr.args.new_recommendation = NoneValue)
        => /\ status_mgr.requests = <<>>
           /\ status_mgr.server = status_mgr.issue
           /\ status_mgr.pc \notin {"numbered", "update"}
           /\ SmRanToEnd => status_mgr.printed = "Status"

\* -v, a "Report Under Review" issue with its recommendation filled, and
\* nothing was requested.
C17_Witness ==
    /\ status_mgr.args.action = NoneValue /\ status_mgr.args.verbose
    /\ RunFetched(status_mgr) /\ SmStatus = "Report Under Review"
    /\ Truthy(status_mgr.field_value)
    /\ status_mgr.transitions # <<>>
    /\ SmRanToEnd /\ status_mgr.requests = <<>>

\* C18 as stated, its first half (checked here for a third argument that is
\* not a number): with a keyword action a transition is requested only when
\* the recommendation field of the issue is filled and the keyword goes with
\* the status.
C18_KeywordTransitionOnlyWhenFilled ==
    (RunFetched(status_mgr) /\ SmKeywordTyped
       /\ status_mgr.args.new_recommendation \in { NoneValue, StrValue("Accept") })
        => (RunTransitions(status_mgr) # {} => (SmFilledOnServer /\ SmKeywordMatches))

\* ------------------------------------------------------------------ Zenodo editor
\* Number of entries of a list with this identifier and this relation.
CountPair(list, identifier, relation) ==
    Cardinality({ n \in DOMAIN list : list[n].identifier = identifier /\ list[n].relation = relation })
ZenInitial == zenodo.initial.metadata.related_identifiers
ZenNow == zenodo.server.metadata.related_identifiers
\* How many entries the pair should have once an application went through.
OnceAdded(identifier, relation) ==
    IF identifier = "" THEN 0
    ELSE IF CountPair(ZenInitial, identifier, relation) = 0 THEN 1
    ELSE CountPair(ZenInitial, identifier, relation)

\* C19: add_relations_to_published_deposit adds (article DOI, isSupplementTo)
\* and (package DOI, isPartOf) only where the deposit has no entry with that
\* identifier and that relation: whatever number of applications went
\* through, the list on the server is the list the deposit started with,
\* followed by at most one new entry per pair; a pair that was there is not
\* added again and one that was missing is there exactly once; so every
\* application that goes through leaves the list the first one left.
C19_AddOnlyIfAbsent ==
    /\ Len(ZenNow) >= Len(ZenInitial)
    /\ SubSeq(ZenNow, 1, Len(ZenInitial)) = ZenInitial
    /\ \A n \in (Len(ZenInitial) + 1)..Len(ZenNow) :
          \/ ZenNow[n] = RelatedId(zenodo.article_doi, "isSupplementTo", "publication-article")
          \/ ZenNow[n] = RelatedId(zenodo.replpkg_doi, "isPartOf", "dataset")
    /\ zenodo.succeeded = <<>> => zenodo.server.metadata = zenodo.initial.metadata
    /\ zenodo.succeeded # <<>>
          => /\ CountPair(ZenNow, zenodo.article_doi, "isSupplementTo")
                  = OnceAdded(zenodo.article_doi, "isSupplementTo")
             /\ CountPair(ZenNow, zenodo.replpkg_doi, "isPartOf")
                  = OnceAdded(zenodo.replpkg_doi, "isPartOf")
             /\ Len(ZenNow) <= Len(ZenInitial) + 2
    /\ \A m, n \in DOMAIN zenodo.succeeded : zenodo.succeeded[m] = zenodo.succeeded[n]

\* Two applications went through on a published deposit (published again in
\* between) that already named the article DOI, but as isPartOf: both
\* relations were added by the first and the second changed nothing.
C19_Witness ==
    /\ Len(zenodo.succeeded) = 2
    /\ zenodo.initial.submitted
    /\ zenodo.article_doi # "" /\ zenodo.replpkg_doi # "" /\ zenodo.article_doi # zenodo.replpkg_doi
    /\ ZenInitial = <<RelatedId(zenodo.article_doi, "isPartOf", "")>>
    /\ ZenNow = ZenInitial \o <<RelatedId(zenodo.article_doi, "isSupplementTo", "publication-article"),
                                RelatedId(zenodo.replpkg_doi, "isPartOf", "dataset")>>

\* ------------------------------------------------------------------ the issue itself qualifies
\* The call on top of the stack is about to run its body for issue k.
Resolving(k) ==
    /\ pc = "check"
    /\ stack # <<>>
    /\ Top.issue_key = k
    /\ Top.phase = "enter"
    /\ k \notin visited

\* C20: when the issue a call resolves (the key of the command line or a
\* linked issue further down) itself held a required status, the call
\* returns at once with ready = True and a chain that is that issue alone:
\* in that step no links are read, the issue itself is the only one
\* fetched, the visited set gains exactly its key and no further call is
\* made; for a key of the command line the whole resolution therefore
\* fetched one issue, visited one key and consisted of one call.
C20_HeldRequiredReturnsAtOnce ==
    /\ [][ \A k \in Keys :
             (Resolving(k) /\ (FetchedOk(k) /\ HeldRequired(k))')
                 => /\ links_db' = links_db
                    /\ fetched' = Append(fetched, k)
                    /\ visited' = visited \cup {k}
                    /\ stack' = SubSeq(stack, 1, Len(stack) - 1)
                    /\ Len(returned') = Len(returned) + 1
                    /\ returned'[Len(returned')].key = k
                    /\ returned'[Len(returned')].result.ready
                    /\ returned'[Len(returned')].result.message.is_list
                    /\ ViaChain(k, returned'[Len(returned')].result) = <<k>> ]_vars
    /\ [] ( (pc = "check" /\ stack = <<>> /\ ret # <<>>
               /\ FetchedOk(Root(idx)) /\ HeldRequired(Root(idx)))
              => /\ fetched = <<Root(idx)>>
                 /\ visited = {Root(idx)}
                 /\ Len(returned) = 1
                 /\ ret[1].ready
                 /\ ViaChain(Root(idx), ret[1]) = <<Root(idx)>> )

\* The second key of the command line held a required status in its history
\* only (its current status is "Done"); its call has returned, its links
\* were never read, although the first key's resolution read links.
C20_Witness ==
    /\ pc = "check" /\ stack = <<>> /\ ret # <<>>
    /\ idx = 2
    /\ Root(1) # Root(2)
    /\ LinksRead(Root(1))
    /\ FetchedOk(Root(2)) /\ HeldRequired(Root(2))
    /\ CurrentStatus(Root(2)) = "Done"
    /\ ~LinksRead(Root(2))
    /\ fetched = <<Root(2)>>
    /\ visited = {Root(2)}
    /\ ret[1].ready

\* ------------------------------------------------------------------ successors in link order
\* The REVISED_BY successors of k in the order of its links.
SuccessorList(k) ==
    IF LinksRead(k)
    THEN LET revisions == SelectSeq(links_db[k][1], IsRevisedBy)
         IN [n \in DOMAIN revisions |-> revisions[n].key]
    ELSE <<>>
\* The call that returned last in the running resolution.
LastReturned == returned[Len(returned)]

\* C21: the REVISED_BY successors of an issue are resolved one at a time in
\* the order of its links: a nested call is made for the first successor, and
\* for the next one only after the call for the one before it came back not
\* ready.  As soon as a successor's call comes back ready the issue returns
\* ready, with that result's status and with a chain that is the issue
\* followed by the successor's chain, in a step that fetches nothing, visits
\* nothing and calls nothing; so when a resolution ends ready, the issue at
\* the end of its chain is the last issue that was fetched.
C21_SuccessorsInOrderFirstReadyWins ==
    /\ [][ (pc = "check" /\ stack # <<>> /\ Len(stack') = Len(stack) + 1)
             => LET successors == SuccessorList(Top.issue_key)
                    called == stack'[Len(stack')].issue_key
                    j == Top.i
                IN /\ j \in DOMAIN successors
                   /\ called = successors[j]
                   /\ \A m \in 1..(j - 1) : successors[m] \in visited
                   /\ j > 1 => /\ LastReturned.key = successors[j - 1]
                               /\ ~LastReturned.result.ready ]_vars
    /\ [][ (pc = "check" /\ stack # <<>> /\ ret # <<>> /\ ret[1].ready)
             => /\ stack' = SubSeq(stack, 1, Len(stack) - 1)
                /\ ret' # <<>>
                /\ ret'[1].ready
                /\ ret'[1].status = ret[1].status
                /\ LastReturned.key \in Range(SuccessorList(Top.issue_key))
                /\ ViaChain(Top.issue_key, ret'[1])
                     = <<Top.issue_key>> \o ViaChain(LastReturned.key, ret[1])
                /\ fetched' = fetched
                /\ visited' = visited
                /\ db' = db
                /\ links_db' = links_db ]_vars
    /\ [] ( (pc = "check" /\ stack = <<>> /\ ret # <<>> /\ ret[1].ready)
              => LET chain == ViaChain(Root(idx), ret[1])
                 IN /\ fetched[Len(fetched)] = chain[Len(chain)]
                    /\ \A n \in 1..(Len(chain) - 1) :
                          \E j \in DOMAIN SuccessorList(chain[n]) :
                             /\ SuccessorList(chain[n])[j] = chain[n + 1]
                             /\ \A m \in 1..(j - 1) :
                                   SuccessorList(chain[n])[m] \in Range(fetched) )

\* The key of the command line has two REVISED_BY successors; the first one
\* held a required status, the resolution ended ready through it, and the
\* second one was never fetched.
C21_Witness ==
    /\ pc = "check" /\ stack = <<>> /\ ret # <<>>
    /\ idx = 1
    /\ Len(SuccessorList(Root(1))) = 2
    /\ Cardinality({Root(1)} \cup Range(SuccessorList(Root(1)))) = 3
    /\ ret[1].ready
    /\ ViaChain(Root(1), ret[1]) = <<Root(1), SuccessorList(Root(1))[1]>>
    /\ fetched = <<Root(1), SuccessorList(Root(1))[1]>>
    /\ db[SuccessorList(Root(1))[2]] = <<>>

\* ------------------------------------------------------------------ choice 0
\* The recommendation the issue had when the approval manager fetched it.
AmCurrentRecommendation == approval.issue.fields[ExpectedFieldId(approval)]

\* C22: with recommendation choice 0 the approval manager keeps the current
\* recommendation: every field of the issue on the server keeps the value it
\* had when the issue was fetched, every update the script requests is for
\* the recommendation field and carries the text of its current value, and
\* with an empty current recommendation the script requests nothing and
\* exits with code 1.
C22_ChoiceZeroKeepsCurrent ==
    (RunFetched(approval) /\ approval.args.recommendation_choice = StrValue("0"))
        => /\ approval.server.fields = approval.issue.fields
           /\ \A n \in AmUpdates :
                 /\ approval.requests[n].field = ExpectedFieldId(approval)
                 /\ AmCurrentRecommendation # NoneValue
                 /\ approval.requests[n].value.values = AmCurrentRecommendation.values
           /\ AmCurrentRecommendation = NoneValue
                 => /\ approval.requests = <<>>
                    /\ approval.pc \in {"options", "exited"}
                    /\ approval.pc = "exited" => approval.exit_code = <<1>>

\* Choice 0 on a "Pre-Approved" issue whose recommendation is the option
\* "Accept": the value was written back, the issue was transitioned, and the
\* recommendation on the server is what it was.
C22_Witness ==
    /\ RunFetched(approval)
    /\ approval.args.recommendation_choice = StrValue("0")
    /\ AmStatus = "Pre-Approved"
    /\ AmCurrentRecommendation = OptionValue("Accept")
    /\ \E n \in AmUpdates : approval.requests[n].ok
    /\ \E n \in AmTransitions : approval.requests[n].ok
    /\ AmExitedWith(0)
    /\ approval.server.fields = approval.issue.fields
    /\ approval.server.status # approval.issue.status

\* ------------------------------------------------------------------ the visited guard
\* The call on top of the stack is about to run for a key that was visited.
AtVisitedGuard ==
    /\ pc = "check"
    /\ stack # <<>>
    /\ Top.phase = "enter"
    /\ Top.issue_key \in visited

\* C23: the "LOOP" result arises only in nested calls.  A call for a key
\* that is already in the visited set is a nested call and returns
\* (False, "LOOP") at once: nothing is fetched, no links are read and the
\* visited set stays as it is.  A call returns "LOOP" in no other way: the
\* key of every "LOOP" result was fetched earlier in the same resolution.
\* The call main makes for a key of the command line starts with an empty
\* visited set and never returns "LOOP", so no line main prints says "LOOP".
C23_LoopOnlyInNestedCalls ==
    /\ [][ AtVisitedGuard
             => /\ Len(stack) >= 2
                /\ stack' = SubSeq(stack, 1, Len(stack) - 1)
                /\ Len(returned') = Len(returned) + 1
                /\ returned'[Len(returned')].key = Top.issue_key
                /\ ~returned'[Len(returned')].result.ready
                /\ returned'[Len(returned')].result.status = "LOOP"
                /\ fetched' = fetched
                /\ visited' = visited
                /\ db' = db
                /\ links_db' = links_db ]_vars
    /\ [][ (Len(returned') = Len(returned) + 1 /\ returned'[Len(returned')].result.status = "LOOP")
             => AtVisitedGuard ]_vars
    /\ [][ (pc = "loop" /\ pc' = "check")
             => /\ visited' = {}
                /\ Len(stack') = 1
                /\ stack'[1].issue_key = Root(idx) ]_vars
    /\ [] ( /\ \A n \in DOMAIN returned :
                 returned[n].result.status = "LOOP" => returned[n].key \in Range(fetched)
            /\ (pc = "check" /\ stack = <<>> /\ ret # <<>>) => ret[1].status # "LOOP"
            /\ \A i \in DOMAIN results : results[i].status # "LOOP" )

\* A cycle of two issues: the key of the command line is revised by another
\* issue, which is revised by the first; the nested call for the first key
\* returned "LOOP", the top-level call did not.
C23_Witness ==
    /\ pc = "check" /\ stack = <<>> /\ ret # <<>>
    /\ Len(fetched) = 2
    /\ fetched[1] = Root(idx) /\ fetched[2] # Root(idx)
    /\ SuccessorList(fetched[1]) = <<fetched[2]>>
    /\ SuccessorList(fetched[2]) = <<fetched[1]>>
    /\ Len(returned) = 3
    /\ returned[1].key = Root(idx) /\ returned[1].result.status = "LOOP"
    /\ returned[3].key = Root(idx) /\ returned[3].result.status # "LOOP"
    /\ ~ret[1].ready

====
